---------------------------- MODULE Spec2Model ----------------------------
(***************************************************************************)
(* A model of OpenGLRenderDevice (src/unnamed/part_000): the resource      *)
(* registries (fboMap, vaoMap, shaderProgramMap), the cached state         *)
(* snapshot, and the graphics API the device drives.  The API side is the  *)
(* record gl; every call the device issues during one operation is logged  *)
(* in calls, in order.                                                     *)
(***************************************************************************)
EXTENDS Integers, Sequences, FiniteSets, TLC

VARIABLES cache, gl, calls, fboMap, vaoMap, shaderProgramMap, version, shaderVersion,
          glStrict, op, ret, nCalls, repeated, queried, isInitialized, initResults

vars == <<cache, gl, calls, fboMap, vaoMap, shaderProgramMap, version, shaderVersion,
          glStrict, op, ret, nCalls, repeated, queried, isInitialized,
          initResults>>

\* ------------------------------------------------------------------ bounds
\* Object names the API hands out, per name space.
MaxBufferName == 3
MaxVaoName == 2
MaxObjectName == 6
MaxAuxName == 2
\* The operations of one run, in the specifications that bound their number.
MaxCalls == 3
\* Widths, heights, byte sizes and counts the caller may pass.
\* API versions major.minor run from 1.0 to MaxMajor.MaxMinor.
MaxMajor == 4
MaxMinor == 9
MaxDim == 2
\* sizeof(float) and sizeof(unsigned int).
SizeofFloat == 4
\* (unsigned int)-1, the handle returned when creation failed; 0xFFFFFFFF, the
\* all-ones stencil mask; std::string::npos, size_t(-1).  All three are the
\* all-ones value of their type, written -1 here.
Sentinel == -1
FullMask == -1
Npos == -1

BufferNames == 1..MaxBufferName
VaoNames == 1..MaxVaoName
ObjectNames == 1..MaxObjectName
AuxNames == 1..MaxAuxName
Dims == 1..MaxDim

\* ------------------------------------------------------------ enumerations
FaceCullings == {"FACE_CULL_NONE", "FACE_CULL_BACK", "FACE_CULL_FRONT"}
DrawFuncs == {"DRAW_FUNC_ALWAYS", "DRAW_FUNC_LESS"}
BlendFuncs == {"BLEND_FUNC_NONE", "BLEND_FUNC_ONE", "BLEND_FUNC_SRC_ALPHA"}
StencilOps == {"STENCIL_KEEP", "STENCIL_REPLACE"}
BufferUsages == {"USAGE_STATIC_DRAW", "USAGE_DYNAMIC_DRAW"}
Masks == {FullMask, 0}

\* ------------------------------------------------------------------ helpers
MapPut(f, k, v) == [x \in (DOMAIN f) \cup {k} |-> IF x = k THEN v ELSE f[x]]

MapDel(f, k) == [x \in (DOMAIN f) \ {k} |-> f[x]]

Call(s, c) == [s EXCEPT !.calls = Append(@, c)]

\* ret is <<>> for an operation that returns nothing, <<v>> for a result v.
Return(s, v) == [s EXCEPT !.ret = <<v>>]

\* The calls of the log that carry the given API function name.
CallsNamed(log, name) == SelectSeq(log, LAMBDA c : c[1] = name)

\* ------------------------------------------------------------ the API side
\* glBindFramebuffer: 0 and live framebuffer names bind.  A name that
\* glGenFramebuffers never returned is rejected by a strict context and is
\* given a new framebuffer object by a lenient one.
glBindFramebuffer(s, fbo) ==
    LET known == fbo = 0 \/ fbo \in s.gl.framebuffers
        g1 == IF known \/ ~s.strict THEN [s.gl EXCEPT !.fbBound = fbo] ELSE s.gl
        g2 == IF ~known /\ ~s.strict
              THEN [g1 EXCEPT !.framebuffers = @ \cup {fbo}] ELSE g1
    IN Call([s EXCEPT !.gl = g2], <<"glBindFramebuffer", fbo>>)

\* glDeleteFramebuffers: unknown names are ignored; deleting the bound
\* framebuffer reverts the binding to 0.
glDeleteFramebuffers(s, fbo) ==
    LET g == [s.gl EXCEPT !.framebuffers = @ \ {fbo},
                          !.fbBound = IF @ = fbo THEN 0 ELSE @]
    IN Call([s EXCEPT !.gl = g], <<"glDeleteFramebuffers", fbo>>)

\* glBindVertexArray: only 0 and live vertex array names bind.
glBindVertexArray(s, vao) ==
    LET ok == vao = 0 \/ vao \in s.gl.vertexArrays
    IN Call([s EXCEPT !.gl.vaBound = IF ok THEN vao ELSE @],
            <<"glBindVertexArray", vao>>)

\* glDeleteVertexArrays: deleting the bound array reverts the binding to 0
\* and the array's element buffer binding dies with it.
glDeleteVertexArrays(s, vao) ==
    LET g == [s.gl EXCEPT !.vertexArrays = @ \ {vao},
                          !.vaBound = IF @ = vao THEN 0 ELSE @,
                          !.elemBuf = [v \in DOMAIN @ |-> IF v = vao /\ vao # 0 THEN 0 ELSE @[v]]]
    IN Call([s EXCEPT !.gl = g], <<"glDeleteVertexArrays", vao>>)

\* glUseProgram: only 0 and live program names become current.  A program
\* flagged for deletion is deleted once it is no longer current.
glUseProgram(s, shader) ==
    LET ok == shader = 0 \/ shader \in s.gl.programs
        old == s.gl.program
        g == IF ~ok THEN s.gl
             ELSE [s.gl EXCEPT !.program = shader,
                               !.programs = IF old # shader /\ old \in s.gl.flagged
                                            THEN @ \ {old} ELSE @,
                               !.flagged = IF old # shader THEN @ \ {old} ELSE @]
    IN Call([s EXCEPT !.gl = g], <<"glUseProgram", shader>>)

glViewport(s, w, h) ==
    Call([s EXCEPT !.gl.viewport = <<0, 0, w, h>>], <<"glViewport", 0, 0, w, h>>)

glEnable(s, cap) ==
    Call([s EXCEPT !.gl.enabled = @ \cup {cap}], <<"glEnable", cap>>)

glDisable(s, cap) ==
    Call([s EXCEPT !.gl.enabled = @ \ {cap}], <<"glDisable", cap>>)

glCullFace(s, mode) ==
    Call([s EXCEPT !.gl.cullFace = mode], <<"glCullFace", mode>>)

glDepthMask(s, flag) ==
    Call([s EXCEPT !.gl.depthMask = flag], <<"glDepthMask", flag>>)

glDepthFunc(s, func) ==
    Call([s EXCEPT !.gl.depthFunc = func], <<"glDepthFunc", func>>)

glBlendFunc(s, src, dst) ==
    Call([s EXCEPT !.gl.blendFunc = <<src, dst>>], <<"glBlendFunc", src, dst>>)

glStencilFunc(s, func, mask, ref) ==
    Call([s EXCEPT !.gl.stencilFunc = <<func, mask, ref>>],
         <<"glStencilFunc", func, mask, ref>>)

glStencilOp(s, sfail, dpfail, dppass) ==
    Call([s EXCEPT !.gl.stencilOp = <<sfail, dpfail, dppass>>],
         <<"glStencilOp", sfail, dpfail, dppass>>)

glStencilMask(s, mask) ==
    Call([s EXCEPT !.gl.stencilMask = mask], <<"glStencilMask", mask>>)

glScissor(s, x, y, w, h) ==
    Call([s EXCEPT !.gl.scissorBox = <<x, y, w, h>>], <<"glScissor", x, y, w, h>>)

\* ------------------------------------------------------- the state cache
\* SetFBO without the comparison against the cached binding.
SetFBO_AlwaysBinds(s, fbo) ==
    [glBindFramebuffer(s, fbo) EXCEPT !.cache.boundFBO = fbo]

SetFBO(s, fbo) ==
    IF fbo = s.cache.boundFBO THEN s
    ELSE [glBindFramebuffer(s, fbo) EXCEPT !.cache.boundFBO = fbo]

\* fboMap[fbo] is std::unordered_map::operator[]: an absent key is inserted
\* with a value-initialised record.
\* SetViewport that compares the handle only.
SetViewport_IgnoresSize(s, fbo) ==
    LET s1 == IF fbo \in DOMAIN s.fboMap THEN s
              ELSE [s EXCEPT !.fboMap = MapPut(@, fbo, [width |-> 0, height |-> 0])]
        fboData == s1.fboMap[fbo]
    IN IF fbo = s1.cache.viewportFBO
       THEN s1
       ELSE [glViewport(s1, fboData.width, fboData.height) EXCEPT
                !.cache.viewportFBO = fbo,
                !.cache.viewportWidth = fboData.width,
                !.cache.viewportHeight = fboData.height]

SetViewport(s, fbo) ==
    LET s1 == IF fbo \in DOMAIN s.fboMap THEN s
              ELSE [s EXCEPT !.fboMap = MapPut(@, fbo, [width |-> 0, height |-> 0])]
        fboData == s1.fboMap[fbo]
    IN IF fbo = s1.cache.viewportFBO /\ fboData.width = s1.cache.viewportWidth
          /\ fboData.height = s1.cache.viewportHeight
       THEN s1
       ELSE [glViewport(s1, fboData.width, fboData.height) EXCEPT
                !.cache.viewportFBO = fbo,
                !.cache.viewportWidth = fboData.width,
                !.cache.viewportHeight = fboData.height]

SetVAO(s, vao) ==
    IF vao = s.cache.boundVAO THEN s
    ELSE [glBindVertexArray(s, vao) EXCEPT !.cache.boundVAO = vao]

SetShader(s, shader) ==
    IF shader = s.cache.boundShader THEN s
    ELSE [glUseProgram(s, shader) EXCEPT !.cache.boundShader = shader]

SetFaceCulling(s, faceCulling) ==
    IF faceCulling = s.cache.currentFaceCulling THEN s
    ELSE LET s1 == IF faceCulling = "FACE_CULL_NONE"
                   THEN glDisable(s, "GL_CULL_FACE")
                   ELSE IF s.cache.currentFaceCulling = "FACE_CULL_NONE"
                        THEN glCullFace(glEnable(s, "GL_CULL_FACE"), faceCulling)
                        ELSE glCullFace(s, faceCulling)
         IN [s1 EXCEPT !.cache.currentFaceCulling = faceCulling]

\* SetDepthTest that issues the depth-function call and forgets to record it.
SetDepthTest_ForgetsFunc(s, shouldWrite, depthFunc) ==
    LET s1 == IF shouldWrite # s.cache.shouldWriteDepth
              THEN [glDepthMask(s, shouldWrite) EXCEPT !.cache.shouldWriteDepth = shouldWrite]
              ELSE s
    IN IF depthFunc = s1.cache.currentDepthFunc THEN s1
       ELSE glDepthFunc(s1, depthFunc)

SetDepthTest(s, shouldWrite, depthFunc) ==
    LET s1 == IF shouldWrite # s.cache.shouldWriteDepth
              THEN [glDepthMask(s, shouldWrite) EXCEPT !.cache.shouldWriteDepth = shouldWrite]
              ELSE s
    IN IF depthFunc = s1.cache.currentDepthFunc THEN s1
       ELSE [glDepthFunc(s1, depthFunc) EXCEPT !.cache.currentDepthFunc = depthFunc]

\* SetBlending that sets the blend functions without enabling blending.
SetBlending_NeverEnables(s, sourceBlend, destinationBlend) ==
    IF sourceBlend = s.cache.currentSourceBlend /\ destinationBlend = s.cache.currentDestBlend
    THEN s
    ELSE LET s1 == IF sourceBlend = "BLEND_FUNC_NONE" \/ destinationBlend = "BLEND_FUNC_NONE"
                   THEN glDisable(s, "GL_BLEND")
                   ELSE glBlendFunc(s, sourceBlend, destinationBlend)
         IN [s1 EXCEPT !.cache.currentSourceBlend = sourceBlend,
                       !.cache.currentDestBlend = destinationBlend]

SetBlending(s, sourceBlend, destinationBlend) ==
    IF sourceBlend = s.cache.currentSourceBlend /\ destinationBlend = s.cache.currentDestBlend
    THEN s
    ELSE LET s1 == IF sourceBlend = "BLEND_FUNC_NONE" \/ destinationBlend = "BLEND_FUNC_NONE"
                   THEN glDisable(s, "GL_BLEND")
                   ELSE IF s.cache.currentSourceBlend = "BLEND_FUNC_NONE"
                           \/ s.cache.currentDestBlend = "BLEND_FUNC_NONE"
                        THEN glBlendFunc(glEnable(s, "GL_BLEND"), sourceBlend, destinationBlend)
                        ELSE glBlendFunc(s, sourceBlend, destinationBlend)
         IN [s1 EXCEPT !.cache.currentSourceBlend = sourceBlend,
                       !.cache.currentDestBlend = destinationBlend]

SetStencilWriteMask(s, mask) ==
    IF s.cache.currentStencilWriteMask = mask THEN s
    ELSE [glStencilMask(s, mask) EXCEPT !.cache.currentStencilWriteMask = mask]

\* a is the argument record [enable, stencilFunc, stencilTestMask,
\* stencilWriteMask, stencilComparisonVal, stencilFail,
\* stencilPassButDepthFail, stencilPass].
SetStencilTest(s, a) ==
    LET s1 == IF a.enable # s.cache.stencilTestEnabled
              THEN [(IF a.enable THEN glEnable(s, "GL_STENCIL_TEST")
                                 ELSE glDisable(s, "GL_STENCIL_TEST"))
                    EXCEPT !.cache.stencilTestEnabled = a.enable]
              ELSE s
        s2 == IF a.stencilFunc # s1.cache.currentStencilFunc
                 \/ a.stencilTestMask # s1.cache.currentStencilTestMask
                 \/ a.stencilComparisonVal # s1.cache.currentStencilComparisonVal
              THEN [glStencilFunc(s1, a.stencilFunc, a.stencilTestMask, a.stencilComparisonVal)
                    EXCEPT !.cache.currentStencilComparisonVal = a.stencilComparisonVal,
                           !.cache.currentStencilTestMask = a.stencilTestMask,
                           !.cache.currentStencilFunc = a.stencilFunc]
              ELSE s1
        s3 == IF a.stencilFail # s2.cache.currentStencilFail
                 \/ a.stencilPass # s2.cache.currentStencilPass
                 \/ a.stencilPassButDepthFail # s2.cache.currentStencilPassButDepthFail
              THEN [glStencilOp(s2, a.stencilFail, a.stencilPassButDepthFail, a.stencilPass)
                    EXCEPT !.cache.currentStencilFail = a.stencilFail,
                           !.cache.currentStencilPass = a.stencilPass,
                           !.cache.currentStencilPassButDepthFail = a.stencilPassButDepthFail]
              ELSE s2
    IN SetStencilWriteMask(s3, a.stencilWriteMask)

\* SetScissorTest that does not record that it disabled the test.
SetScissorTest_ForgetsDisable(s, enable, startX, startY, width, height) ==
    IF ~enable
    THEN IF ~s.cache.scissorTestEnabled THEN s
         ELSE glDisable(s, "GL_SCISSOR_TEST")
    ELSE LET s1 == IF ~s.cache.scissorTestEnabled THEN glEnable(s, "GL_SCISSOR_TEST") ELSE s
         IN [glScissor(s1, startX, startY, width, height)
             EXCEPT !.cache.scissorTestEnabled = TRUE]

SetScissorTest(s, enable, startX, startY, width, height) ==
    IF ~enable
    THEN IF ~s.cache.scissorTestEnabled THEN s
         ELSE [glDisable(s, "GL_SCISSOR_TEST") EXCEPT !.cache.scissorTestEnabled = FALSE]
    ELSE LET s1 == IF ~s.cache.scissorTestEnabled THEN glEnable(s, "GL_SCISSOR_TEST") ELSE s
         IN [glScissor(s1, startX, startY, width, height)
             EXCEPT !.cache.scissorTestEnabled = TRUE]

\* --------------------------------------------------- the API side: buffers
\* glGenBuffers: the names (chosen by the API among the unused ones) become
\* buffer objects without a data store.
glGenBuffers(s, names) ==
    LET fresh == {names[k] : k \in 1..Len(names)}
        g == [s.gl EXCEPT !.buffers = [b \in (DOMAIN @) \cup fresh |->
                                          IF b \in DOMAIN @ THEN @[b] ELSE 0]]
    IN Call([s EXCEPT !.gl = g], <<"glGenBuffers", Len(names), names>>)

\* The buffer bound to a target; GL_ELEMENT_ARRAY_BUFFER is state of the
\* bound vertex array.
BoundBuffer(g, target) ==
    CASE target = "GL_ARRAY_BUFFER" -> g.arrayBuf
      [] target = "GL_UNIFORM_BUFFER" -> g.uniformBuf
      [] OTHER -> g.elemBuf[g.vaBound]

\* glBindBuffer: a strict context rejects names glGenBuffers never returned
\* and an element array binding while no vertex array is bound; a lenient
\* one gives an unknown name a new buffer object.
glBindBuffer(s, target, buffer) ==
    LET known == buffer = 0 \/ buffer \in DOMAIN s.gl.buffers
        ok == IF s.strict
              THEN known /\ (target = "GL_ELEMENT_ARRAY_BUFFER" => s.gl.vaBound # 0)
              ELSE TRUE
        g1 == IF ok /\ ~known THEN [s.gl EXCEPT !.buffers = MapPut(@, buffer, 0)] ELSE s.gl
        g2 == IF ~ok THEN g1
              ELSE CASE target = "GL_ARRAY_BUFFER" -> [g1 EXCEPT !.arrayBuf = buffer]
                     [] target = "GL_UNIFORM_BUFFER" -> [g1 EXCEPT !.uniformBuf = buffer]
                     [] OTHER -> [g1 EXCEPT !.elemBuf[g1.vaBound] = buffer]
    IN Call([s EXCEPT !.gl = g2], <<"glBindBuffer", target, buffer>>)

\* glBufferData: gives the buffer bound to the target a new data store of
\* the given size; an error, and no store, when no buffer is bound.
glBufferData(s, target, size, data, usage) ==
    LET b == BoundBuffer(s.gl, target)
        g == IF b = 0 THEN s.gl ELSE [s.gl EXCEPT !.buffers[b] = size]
    IN Call([s EXCEPT !.gl = g], <<"glBufferData", target, size, data, usage>>)

\* glBufferSubData: overwrites part of the store; its size does not change.
glBufferSubData(s, target, size, data) ==
    Call(s, <<"glBufferSubData", target, 0, size, data>>)

\* glDeleteBuffers: unknown names and 0 are ignored; a deleted buffer is
\* unbound from every binding point.
glDeleteBuffers(s, names) ==
    LET dead == {names[k] : k \in 1..Len(names)} \ {0}
        g == [s.gl EXCEPT
                !.buffers = [b \in (DOMAIN @) \ dead |-> @[b]],
                !.arrayBuf = IF @ \in dead THEN 0 ELSE @,
                !.uniformBuf = IF @ \in dead THEN 0 ELSE @,
                !.elemBuf = [v \in DOMAIN @ |-> IF @[v] \in dead THEN 0 ELSE @[v]]]
    IN Call([s EXCEPT !.gl = g], <<"glDeleteBuffers", Len(names), names>>)

glGenVertexArrays(s, vao) ==
    Call([s EXCEPT !.gl.vertexArrays = @ \cup {vao}], <<"glGenVertexArrays", 1, vao>>)

\* --------------------------------------------------------- render targets
\* fbo is the name glGenBuffers hands out.
CreateRenderTarget(s, fbo, texture, width, height, attachment, attachmentNumber, mipLevel) ==
    LET s1 == glGenBuffers(s, <<fbo>>)
        s2 == SetFBO(s1, fbo)
        s3 == Call(s2, <<"glFramebufferTexture2D", "GL_FRAMEBUFFER",
                         <<attachment, attachmentNumber>>, "GL_TEXTURE_2D", texture, mipLevel>>)
        s4 == [s3 EXCEPT !.fboMap = MapPut(@, fbo, [width |-> width, height |-> height])]
    IN Return(s4, fbo)

\* UpdateRenderTarget that writes the record of the handle it is given.
UpdateRenderTarget_WritesGivenHandle(s, fbo, width, height) ==
    [s EXCEPT !.fboMap = MapPut(@, fbo, [width |-> width, height |-> height])]

\* fboMap[0] is operator[]: the record of handle 0 is written whatever fbo is.
UpdateRenderTarget(s, fbo, width, height) ==
    [s EXCEPT !.fboMap = MapPut(@, 0, [width |-> width, height |-> height])]

\* ReleaseRenderTarget without the test for handle 0.
ReleaseRenderTarget_ZeroNotSpared(s, fbo) ==
    IF fbo \notin DOMAIN s.fboMap THEN Return(s, 0)
    ELSE LET s1 == glDeleteFramebuffers(s, fbo)
         IN Return([s1 EXCEPT !.fboMap = MapDel(@, fbo)], 0)

\* ReleaseRenderTarget without the registry lookup.
ReleaseRenderTarget_NoLookup(s, fbo) ==
    IF fbo = 0 THEN Return(s, 0)
    ELSE Return([glDeleteFramebuffers(s, fbo) EXCEPT !.fboMap = MapDel(@, fbo)], 0)

ReleaseRenderTarget(s, fbo) ==
    IF fbo = 0 THEN Return(s, 0)
    ELSE IF fbo \notin DOMAIN s.fboMap THEN Return(s, 0)
    ELSE LET s1 == glDeleteFramebuffers(s, fbo)
         IN Return([s1 EXCEPT !.fboMap = MapDel(@, fbo)], 0)

\* ----------------------------------------------------------- vertex arrays
\* The attribute calls of one component: elementSize / 4 slots of width 4,
\* then one slot of width elementSize % 4 when that is not 0.  The result is
\* the state after the calls and the next free attribute index.
AttribSlot(s, attribute, width, elementSize, offset, inInstancedMode) ==
    LET s1 == Call(s, <<"glEnableVertexAttribArray", attribute>>)
        s2 == Call(s1, <<"glVertexAttribPointer", attribute, width, "GL_FLOAT", FALSE,
                         elementSize * SizeofFloat, offset>>)
    IN IF inInstancedMode THEN Call(s2, <<"glVertexAttribDivisor", attribute, 1>>) ELSE s2

RECURSIVE AttribFullSlots(_, _, _, _, _, _)
AttribFullSlots(s, attribute, j, elementSizeDiv, elementSize, inInstancedMode) ==
    IF j >= elementSizeDiv THEN s
    ELSE AttribFullSlots(
            AttribSlot(s, attribute, 4, elementSize, SizeofFloat * j * 4, inInstancedMode),
            attribute + 1, j + 1, elementSizeDiv, elementSize, inInstancedMode)

\* ComponentAttributes that does not count the remainder slot.
ComponentAttributes_RemainderNotCounted(s, attribute, elementSize, inInstancedMode) ==
    LET elementSizeDiv == elementSize \div 4
        elementSizeRem == elementSize % 4
        s1 == AttribFullSlots(s, attribute, 0, elementSizeDiv, elementSize, inInstancedMode)
    IN IF elementSizeRem # 0
       THEN [st |-> AttribSlot(s1, attribute + elementSizeDiv, elementSizeRem, elementSize,
                               SizeofFloat * elementSizeDiv * 4, inInstancedMode),
             attribute |-> attribute + elementSizeDiv]
       ELSE [st |-> s1, attribute |-> attribute + elementSizeDiv]

ComponentAttributes(s, attribute, elementSize, inInstancedMode) ==
    LET elementSizeDiv == elementSize \div 4
        elementSizeRem == elementSize % 4
        s1 == AttribFullSlots(s, attribute, 0, elementSizeDiv, elementSize, inInstancedMode)
    IN IF elementSizeRem # 0
       THEN [st |-> AttribSlot(s1, attribute + elementSizeDiv, elementSizeRem, elementSize,
                               SizeofFloat * elementSizeDiv * 4, inInstancedMode),
             attribute |-> attribute + elementSizeDiv + 1]
       ELSE [st |-> s1, attribute |-> attribute + elementSizeDiv]

\* The usage and the byte size of the buffer of component i.
\* ComponentUsage that passes the caller's usage through for every component.
ComponentUsage_AsRequested(i, numVertexComponents, usage) == usage

ComponentUsage(i, numVertexComponents, usage) ==
    IF i >= numVertexComponents THEN "USAGE_DYNAMIC_DRAW" ELSE usage

ComponentDataSize(i, elementSize, numVertexComponents, numVertices) ==
    IF i >= numVertexComponents THEN elementSize * SizeofFloat
    ELSE elementSize * SizeofFloat * numVertices

\* The loop over the components, i = 0 .. numBuffers - 2 (i is 0-based as in
\* the code; the sequences are 1-based).  r carries the state, the next
\* attribute index and the byte sizes recorded so far.
RECURSIVE ComponentLoop(_, _, _, _, _, _, _, _)
ComponentLoop(r, i, buffers, vertexElementSizes, hasData, numVertexComponents, numVertices, usage) ==
    IF i >= Len(buffers) - 1 THEN r
    ELSE LET inInstancedMode == i >= numVertexComponents
             attributeUsage == ComponentUsage(i, numVertexComponents, usage)
             elementSize == vertexElementSizes[i + 1]
             bufferData == IF inInstancedMode \/ ~hasData THEN "nullptr" ELSE "data"
             dataSize == ComponentDataSize(i, elementSize, numVertexComponents, numVertices)
             s1 == glBindBuffer(r.st, "GL_ARRAY_BUFFER", buffers[i + 1])
             s2 == glBufferData(s1, "GL_ARRAY_BUFFER", dataSize, bufferData, attributeUsage)
             a == ComponentAttributes(s2, r.attribute, elementSize, inInstancedMode)
         IN ComponentLoop([st |-> a.st, attribute |-> a.attribute,
                           bufferSizes |-> Append(r.bufferSizes, dataSize)],
                          i + 1, buffers, vertexElementSizes, hasData,
                          numVertexComponents, numVertices, usage)

\* vao and buffers are the names glGenVertexArrays and glGenBuffers hand out;
\* hasData says whether vertexData is non-null.
CreateVertexArray(s, vao, buffers, hasData, vertexElementSizes, numVertexComponents, numVertices, numIndices, usage) ==
    LET numBuffers == Len(buffers)
        s1 == glGenVertexArrays(s, vao)
        s2 == SetVAO(s1, vao)
        s3 == glGenBuffers(s2, buffers)
        r == ComponentLoop([st |-> s3, attribute |-> 0, bufferSizes |-> <<>>], 0, buffers,
                           vertexElementSizes, hasData, numVertexComponents, numVertices, usage)
        indicesSize == numIndices * SizeofFloat
        s4 == glBindBuffer(r.st, "GL_ELEMENT_ARRAY_BUFFER", buffers[numBuffers])
        s5 == glBufferData(s4, "GL_ELEMENT_ARRAY_BUFFER", indicesSize, "indices", usage)
        vaoData == [buffers |-> buffers,
                    bufferSizes |-> Append(r.bufferSizes, indicesSize),
                    numBuffers |-> numBuffers,
                    numElements |-> numIndices,
                    usage |-> usage,
                    instanceComponentsStartIndex |-> numVertexComponents]
    IN Return([s5 EXCEPT !.vaoMap = MapPut(@, vao, vaoData)], vao)

\* The usage UpdateVertexArrayBuffer passes when it has to reallocate.
UpdateUsage(vaoData, bufferIndex) ==
    IF bufferIndex >= vaoData.instanceComponentsStartIndex
    THEN "USAGE_DYNAMIC_DRAW" ELSE vaoData.usage

\* UpdateVertexArrayBuffer that records dataSize after an overwrite in place too.
UpdateVertexArrayBuffer_AlwaysRecords(s, vao, bufferIndex, dataSize, a) ==
    IF vao = 0 THEN s
    ELSE IF vao \notin DOMAIN s.vaoMap THEN s
    ELSE LET vaoData == s.vaoMap[vao]
             usage == UpdateUsage(vaoData, bufferIndex)
             s1 == SetVAO(s, vao)
             s2 == glBindBuffer(s1, "GL_ARRAY_BUFFER", vaoData.buffers[bufferIndex + 1])
             s3 == IF vaoData.bufferSizes[bufferIndex + 1] >= dataSize
                   THEN glBufferSubData(s2, "GL_ARRAY_BUFFER", dataSize, "data")
                   ELSE glBufferData(s2, "GL_ARRAY_BUFFER", dataSize, "data", usage)
         IN [s3 EXCEPT !.vaoMap[vao].bufferSizes[bufferIndex + 1] = dataSize]

\* bufferIndex is 0-based as in the code.  The code does not compare it with
\* numBuffers: beyond the end of the two arrays, buffers[bufferIndex] and
\* bufferSizes[bufferIndex] read whatever lies behind them, which is a (the
\* record [buffer, size]), and the assignment to bufferSizes[bufferIndex]
\* lands outside the record.
UpdateVertexArrayBuffer(s, vao, bufferIndex, dataSize, a) ==
    IF vao = 0 THEN s
    ELSE IF vao \notin DOMAIN s.vaoMap THEN s
    ELSE LET vaoData == s.vaoMap[vao]
             inside == bufferIndex < vaoData.numBuffers
             buffer == IF inside THEN vaoData.buffers[bufferIndex + 1] ELSE a.buffer
             bufferSize == IF inside THEN vaoData.bufferSizes[bufferIndex + 1] ELSE a.size
             usage == UpdateUsage(vaoData, bufferIndex)
             s1 == SetVAO(s, vao)
             s2 == glBindBuffer(s1, "GL_ARRAY_BUFFER", buffer)
             s3 == glBufferData(s2, "GL_ARRAY_BUFFER", dataSize, "data", usage)
         IN IF bufferSize >= dataSize
            THEN glBufferSubData(s2, "GL_ARRAY_BUFFER", dataSize, "data")
            ELSE IF inside
            THEN [s3 EXCEPT !.vaoMap[vao].bufferSizes[bufferIndex + 1] = dataSize]
            ELSE s3

ReleaseVertexArray(s, vao) ==
    IF vao = 0 THEN Return(s, 0)
    ELSE IF vao \notin DOMAIN s.vaoMap THEN Return(s, 0)
    ELSE LET vaoData == s.vaoMap[vao]
             s1 == glDeleteVertexArrays(s, vao)
             s2 == glDeleteBuffers(s1, vaoData.buffers)
         IN Return([s2 EXCEPT !.vaoMap = MapDel(@, vao)], 0)

\* ------------------------------------------------- samplers and textures
\* a is the argument record [minFilter, magFilter, wrapU, wrapV, anisotropy];
\* result is the name glGenSamplers hands out.
CreateSampler(s, result, a) ==
    LET s1 == Call([s EXCEPT !.gl.samplers = @ \cup {result}], <<"glGenSamplers", 1, result>>)
        s2 == Call(s1, <<"glSamplerParameteri", result, "GL_TEXTURE_WRAP_S", a.wrapU>>)
        s3 == Call(s2, <<"glSamplerParameteri", result, "GL_TEXTURE_WRAP_T", a.wrapV>>)
        s4 == Call(s3, <<"glSamplerParameteri", result, "GL_TEXTURE_MAG_FILTER", a.magFilter>>)
        s5 == Call(s4, <<"glSamplerParameteri", result, "GL_TEXTURE_MIN_FILTER", a.minFilter>>)
        s6 == IF a.anisotropy # 0 /\ a.minFilter # "FILTER_NEAREST" /\ a.minFilter # "FILTER_LINEAR"
              THEN Call(s5, <<"glSamplerParameterf", result, "GL_TEXTURE_MAX_ANISOTROPY_EXT",
                              a.anisotropy>>)
              ELSE s5
    IN Return(s6, result)

ReleaseSampler(s, sampler) ==
    IF sampler = 0 THEN Return(s, 0)
    ELSE Return(Call([s EXCEPT !.gl.samplers = @ \ {sampler}],
                     <<"glDeleteSamplers", 1, sampler>>), 0)

GetOpenGLFormat(format) ==
    CASE format = "FORMAT_R" -> "GL_RED"
      [] format = "FORMAT_RG" -> "GL_RG"
      [] format = "FORMAT_RGB" -> "GL_RGB"
      [] format = "FORMAT_RGBA" -> "GL_RGBA"
      [] format = "FORMAT_DEPTH" -> "GL_DEPTH_COMPONENT"
      [] format = "FORMAT_DEPTH_AND_STENCIL" -> "GL_DEPTH_STENCIL"
      [] OTHER -> "0"

GetOpenGLInternalFormat(format, compress) ==
    CASE format = "FORMAT_R" -> "GL_RED"
      [] format = "FORMAT_RG" -> "GL_RG"
      [] format = "FORMAT_RGB" ->
            IF compress THEN "GL_COMPRESSED_SRGB_S3TC_DXT1_EXT" ELSE "GL_RGB"
      [] format = "FORMAT_RGBA" ->
            IF compress THEN "GL_COMPRESSED_SRGB_ALPHA_S3TC_DXT5_EXT" ELSE "GL_RGBA"
      [] format = "FORMAT_DEPTH" -> "GL_DEPTH_COMPONENT"
      [] format = "FORMAT_DEPTH_AND_STENCIL" -> "GL_DEPTH_STENCIL"
      [] OTHER -> "0"

glPixelStorei(s, pname, param) ==
    Call(IF pname = "GL_PACK_ALIGNMENT" THEN [s EXCEPT !.gl.packAlignment = param]
         ELSE [s EXCEPT !.gl.unpackAlignment = param],
         <<"glPixelStorei", pname, param>>)

\* a is the argument record [width, height, dataFormat, internalFormat,
\* generateMipmaps, compress, packAlignment, unpackAlignment]; textureHandle
\* is the name glGenTextures hands out.
CreateTexture2D(s, textureHandle, a) ==
    LET format == GetOpenGLFormat(a.dataFormat)
        glInternalFormat == GetOpenGLInternalFormat(a.internalFormat, a.compress)
        s1 == IF a.packAlignment # s.cache.currentPackAlignment
              THEN [glPixelStorei(s, "GL_PACK_ALIGNMENT", a.packAlignment)
                    EXCEPT !.cache.currentPackAlignment = a.packAlignment]
              ELSE s
        s2 == IF a.unpackAlignment # s1.cache.currentUnpackAlignment
              THEN [glPixelStorei(s1, "GL_UNPACK_ALIGNMENT", a.unpackAlignment)
                    EXCEPT !.cache.currentUnpackAlignment = a.unpackAlignment]
              ELSE s1
        s3 == Call([s2 EXCEPT !.gl.textures = @ \cup {textureHandle}],
                   <<"glGenTextures", 1, textureHandle>>)
        s4 == Call(s3, <<"glBindTexture", "GL_TEXTURE_2D", textureHandle>>)
        s5 == Call(s4, <<"glTexParameterf", "GL_TEXTURE_2D", "GL_TEXTURE_MIN_FILTER", "GL_NEAREST">>)
        s6 == Call(s5, <<"glTexParameterf", "GL_TEXTURE_2D", "GL_TEXTURE_MAG_FILTER", "GL_NEAREST">>)
        s7 == Call(s6, <<"glTexParameteri", "GL_TEXTURE_2D", "GL_TEXTURE_WRAP_S", "GL_CLAMP_TO_EDGE">>)
        s8 == Call(s7, <<"glTexParameteri", "GL_TEXTURE_2D", "GL_TEXTURE_WRAP_T", "GL_CLAMP_TO_EDGE">>)
        s9 == Call(s8, <<"glTexImage2D", "GL_TEXTURE_2D", 0, glInternalFormat, a.width, a.height,
                         0, format, "GL_UNSIGNED_BYTE">>)
        s10 == IF a.generateMipmaps
               THEN Call(s9, <<"glGenerateMipmap", "GL_TEXTURE_2D">>)
               ELSE Call(Call(s9, <<"glTexParameteri", "GL_TEXTURE_2D", "GL_TEXTURE_BASE_LEVEL", 0>>),
                         <<"glTexParameteri", "GL_TEXTURE_2D", "GL_TEXTURE_MAX_LEVEL", 0>>)
    IN Return(s10, textureHandle)

ReleaseTexture2D(s, texture2D) ==
    IF texture2D = 0 THEN Return(s, 0)
    ELSE Return(Call([s EXCEPT !.gl.textures = @ \ {texture2D}],
                     <<"glDeleteTextures", 1, texture2D>>), 0)

\* --------------------------------------------------------- uniform buffers
CreateUniformBuffer(s, ubo, dataSize, usage) ==
    LET s1 == glGenBuffers(s, <<ubo>>)
        s2 == glBindBuffer(s1, "GL_UNIFORM_BUFFER", ubo)
        s3 == glBufferData(s2, "GL_UNIFORM_BUFFER", dataSize, "data", usage)
    IN Return(s3, ubo)

\* glMapBuffer returns no pointer when no buffer is bound to the target, and
\* may fail in the driver (mapFails).  The result is written into the log.
glMapBuffer(s, target, mapFails) ==
    LET destination == IF BoundBuffer(s.gl, target) = 0 \/ mapFails THEN "NULL" ELSE "mapped"
    IN Call([s EXCEPT !.gl.mapped = destination], <<"glMapBuffer", target, destination>>)

glUnmapBuffer(s, target) ==
    Call([s EXCEPT !.gl.mapped = "NULL"], <<"glUnmapBuffer", target>>)

\* std::memcpy(destination, data, dataSize) is logged with its destination.
UpdateUniformBuffer(s, buffer, dataSize, mapFails) ==
    LET s1 == glBindBuffer(s, "GL_UNIFORM_BUFFER", buffer)
        s2 == glMapBuffer(s1, "GL_UNIFORM_BUFFER", mapFails)
        s3 == Call(s2, <<"memcpy", s2.gl.mapped, dataSize>>)
    IN glUnmapBuffer(s3, "GL_UNIFORM_BUFFER")

ReleaseUniformBuffer(s, buffer) ==
    IF buffer = 0 THEN Return(s, 0)
    ELSE Return(glDeleteBuffers(s, <<buffer>>), 0)

\* --------------------------------------------------------------- versions
\* glGetIntegerv(GL_MAJOR_VERSION) and (GL_MINOR_VERSION) read gl.version.
\* GetVersion that queries the API on every call.
GetVersion_NoMemo(s) ==
    LET s1 == Call(s, <<"glGetIntegerv", "GL_MAJOR_VERSION">>)
        s2 == Call(s1, <<"glGetIntegerv", "GL_MINOR_VERSION">>)
        v == s.gl.version[1] * 100 + s.gl.version[2] * 10
    IN Return([s2 EXCEPT !.version = v], v)

GetVersion(s) ==
    IF s.version # 0 THEN Return(s, s.version)
    ELSE LET s1 == Call(s, <<"glGetIntegerv", "GL_MAJOR_VERSION">>)
             s2 == Call(s1, <<"glGetIntegerv", "GL_MINOR_VERSION">>)
             v == s.gl.version[1] * 100 + s.gl.version[2] * 10
         IN Return([s2 EXCEPT !.version = v], v)

\* GetShaderVersion whose "150" band starts at 310.
GetShaderVersion_150From310(s) ==
    IF s.shaderVersion # "" THEN Return(s, s.shaderVersion)
    ELSE LET s1 == GetVersion(s)
             v == s1.ret[1]
             str == IF v >= 330 THEN ToString(v)
                    ELSE IF v >= 310 THEN "150"
                    ELSE IF v >= 300 THEN "130"
                    ELSE IF v >= 210 THEN "120"
                    ELSE IF v >= 200 THEN "110"
                    ELSE ""
         IN Return([s1 EXCEPT !.shaderVersion = str], str)

GetShaderVersion(s) ==
    IF s.shaderVersion # "" THEN Return(s, s.shaderVersion)
    ELSE LET s1 == GetVersion(s)
             v == s1.ret[1]
             str == IF v >= 330 THEN ToString(v)
                    ELSE IF v >= 320 THEN "150"
                    ELSE IF v >= 310 THEN "140"
                    ELSE IF v >= 300 THEN "130"
                    ELSE IF v >= 210 THEN "120"
                    ELSE IF v >= 200 THEN "110"
                    ELSE ""
         IN Return([s1 EXCEPT !.shaderVersion = str], str)

\* --------------------------------------------------------- shader programs
\* A shader text is a sequence of characters; "#version" is written "#v".
VersionDirective == <<"#", "v">>

NewlineText == <<"\n">>

EmptyMap == [x \in {} |-> 0]

\* std::string::find(needle, pos): the first position >= pos (0-based) at
\* which needle occurs, npos when there is none or pos is past the end.
\* A find that searches from the start when it is given npos as position.
Find_FromStartOnNpos(text, needle, pos) ==
    LET from == IF pos = Npos THEN 0 ELSE pos
        hits == {i \in from..(Len(text) - Len(needle)) :
                    SubSeq(text, i + 1, i + Len(needle)) = needle}
    IN IF hits = {} THEN Npos ELSE CHOOSE i \in hits : \A k \in hits : i <= k

Find(text, needle, pos) ==
    IF pos = Npos THEN Npos
    ELSE LET hits == {i \in pos..(Len(text) - Len(needle)) :
                         SubSeq(text, i + 1, i + Len(needle)) = needle}
         IN IF hits = {} THEN Npos ELSE CHOOSE i \in hits : \A k \in hits : i <= k

\* std::string::insert(pos, marker): marker stands for one "#define ...\n" line.
Insert(text, pos, marker) ==
    SubSeq(text, 1, pos) \o <<marker>> \o SubSeq(text, pos + 1, Len(text))

\* shader is what glCreateShader returns (0 when it fails), compiled what
\* GL_COMPILE_STATUS reports.  ok is the function's result, shaders the vector.
AddShader(r, shaderProgram, text, type, shader, compiled) ==
    LET s1 == Call(IF shader = 0 THEN r.st ELSE [r.st EXCEPT !.gl.shaders = @ \cup {shader}],
                   <<"glCreateShader", type, shader>>)
    IN IF shader = 0 THEN [st |-> s1, shaders |-> r.shaders, ok |-> FALSE]
       ELSE LET s2 == Call(s1, <<"glShaderSource", shader, text>>)
                s3 == Call(s2, <<"glCompileShader", shader>>)
                s4 == Call(s3, <<"glGetShaderiv", shader, "GL_COMPILE_STATUS">>)
            IN IF ~compiled
               THEN [st |-> Call(s4, <<"glGetShaderInfoLog", shader>>),
                     shaders |-> r.shaders, ok |-> FALSE]
               ELSE [st |-> Call(s4, <<"glAttachShader", shaderProgram, shader>>),
                     shaders |-> Append(r.shaders, shader), ok |-> TRUE]

\* success is what the status query reports; the result says whether there
\* was an error.
\* CheckShaderError that reports no error whatever the status is.
CheckShaderError_NeverReports(s, shader, flag, isProgram, success) ==
    [st |-> Call(s, <<(IF isProgram THEN "glGetProgramiv" ELSE "glGetShaderiv"), shader, flag>>),
     error |-> FALSE]

CheckShaderError(s, shader, flag, isProgram, success) ==
    LET s1 == Call(s, <<(IF isProgram THEN "glGetProgramiv" ELSE "glGetShaderiv"), shader, flag>>)
    IN IF ~success
       THEN [st |-> Call(s1, <<(IF isProgram THEN "glGetProgramInfoLog"
                                ELSE "glGetShaderInfoLog"), shader>>),
             error |-> TRUE]
       ELSE [st |-> s1, error |-> FALSE]

RECURSIVE AttributeLoop(_, _, _, _)
AttributeLoop(s, program, attribute, numActiveAttributes) ==
    IF attribute >= numActiveAttributes THEN s
    ELSE AttributeLoop(
            Call(Call(s, <<"glGetActiveAttrib", program, attribute>>),
                 <<"glBindAttribLocation", program, attribute>>),
            program, attribute + 1, numActiveAttributes)

\* AddAllAttributes that binds the attributes whatever the version is.
AddAllAttributes_AnyVersion(s, program, ver, numActiveAttributes) ==
    LET s1 == Call(s, <<"glGetProgramiv", program, "GL_ACTIVE_ATTRIBUTES">>)
        s2 == Call(s1, <<"glGetProgramiv", program, "GL_ACTIVE_ATTRIBUTE_MAX_LENGTH">>)
    IN AttributeLoop(s2, program, 0, numActiveAttributes)

AddAllAttributes(s, program, ver, numActiveAttributes) ==
    IF ver >= 320 THEN s
    ELSE LET s1 == Call(s, <<"glGetProgramiv", program, "GL_ACTIVE_ATTRIBUTES">>)
             s2 == Call(s1, <<"glGetProgramiv", program, "GL_ACTIVE_ATTRIBUTE_MAX_LENGTH">>)
         IN AttributeLoop(s2, program, 0, numActiveAttributes)

\* The loop over the active uniform blocks; blocks is the sequence of their
\* names, the block index is the position (0-based).
RECURSIVE UniformBlockLoop(_, _, _, _)
UniformBlockLoop(r, shaderProgram, block, blocks) ==
    IF block >= Len(blocks) THEN r
    ELSE LET s1 == Call(r.st, <<"glGetActiveUniformBlockiv", shaderProgram, block>>)
             s2 == Call(s1, <<"glGetActiveUniformBlockName", shaderProgram, block>>)
             s3 == Call(s2, <<"glGetUniformBlockIndex", shaderProgram, blocks[block + 1]>>)
         IN UniformBlockLoop([r EXCEPT !.st = s3,
                                       !.uniformMap = MapPut(@, blocks[block + 1], block)],
                             shaderProgram, block + 1, blocks)

\* const GLint numUniforms = 0: the count glGetProgramiv(GL_ACTIVE_UNIFORMS)
\* reports is stored in numBlocks, and the loop bound stays 0.
NumUniforms == 0

\* The loop over the active uniforms; uniforms is the sequence of the
\* program's active uniforms, [name, type, location].
RECURSIVE UniformLoop(_, _, _, _, _)
UniformLoop(r, shaderProgram, uniform, numUniforms, uniforms) ==
    IF uniform >= numUniforms THEN r
    ELSE LET u == uniforms[uniform + 1]
             s1 == Call(r.st, <<"glGetActiveUniform", shaderProgram, uniform>>)
         IN IF u.type # "GL_SAMPLER_2D"
            THEN UniformLoop([r EXCEPT !.st = s1], shaderProgram, uniform + 1, numUniforms, uniforms)
            ELSE UniformLoop(
                    [r EXCEPT !.st = Call(s1, <<"glGetUniformLocation", shaderProgram, u.name>>),
                              !.samplerMap = MapPut(@, u.name, u.location)],
                    shaderProgram, uniform + 1, numUniforms, uniforms)

AddShaderUniforms(r, shaderProgram, blocks, uniforms) ==
    LET s1 == Call(r.st, <<"glGetProgramiv", shaderProgram, "GL_ACTIVE_UNIFORM_BLOCKS">>)
        r1 == UniformBlockLoop([r EXCEPT !.st = s1], shaderProgram, 0, blocks)
        s2 == Call(r1.st, <<"glGetProgramiv", shaderProgram, "GL_ACTIVE_UNIFORMS">>)
    IN UniformLoop([r1 EXCEPT !.st = s2], shaderProgram, 0, NumUniforms, uniforms)

\* a is what the API answers during the call: [shaderProgram (the name
\* glCreateProgram returns, 0 when it fails), vertexShader, vertexCompiled,
\* fragmentShader, fragmentCompiled, linked, valid, numActiveAttributes,
\* blocks, uniforms].
CreateShaderProgram(s, shaderText, a) ==
    LET shaderProgram == a.shaderProgram
        s1 == Call(IF shaderProgram = 0 THEN s
                   ELSE [s EXCEPT !.gl.programs = @ \cup {shaderProgram}],
                   <<"glCreateProgram", shaderProgram>>)
        defineInsertPosition == Find(shaderText, NewlineText, Find(shaderText, VersionDirective, 0))
        vertexShaderText == Insert(shaderText, defineInsertPosition + 1, "VERTEX_SHADER_BUILD")
        fragmentShaderText == Insert(shaderText, defineInsertPosition + 1, "FRAGMENT_SHADER_BUILD")
        v == AddShader([st |-> s1, shaders |-> <<>>], shaderProgram, vertexShaderText,
                       "GL_VERTEX_SHADER", a.vertexShader, a.vertexCompiled)
        f == AddShader(v, shaderProgram, fragmentShaderText,
                       "GL_FRAGMENT_SHADER", a.fragmentShader, a.fragmentCompiled)
        l == CheckShaderError(Call(f.st, <<"glLinkProgram", shaderProgram>>), shaderProgram,
                              "GL_LINK_STATUS", TRUE, a.linked)
        c == CheckShaderError(Call(l.st, <<"glValidateProgram", shaderProgram>>), shaderProgram,
                              "GL_VALIDATE_STATUS", TRUE, a.valid)
        g == GetVersion(c.st)
        t == AddAllAttributes(g, shaderProgram, g.ret[1], a.numActiveAttributes)
        u == AddShaderUniforms([st |-> t, uniformMap |-> EmptyMap, samplerMap |-> EmptyMap],
                               shaderProgram, a.blocks, a.uniforms)
        programData == [shaders |-> f.shaders, uniformMap |-> u.uniformMap,
                        samplerMap |-> u.samplerMap]
    IN IF shaderProgram = 0 THEN Return(s1, Sentinel)
       ELSE IF defineInsertPosition = Npos THEN Return(s1, Sentinel)
       ELSE IF ~v.ok THEN Return(v.st, Sentinel)
       ELSE IF ~f.ok THEN Return(f.st, Sentinel)
       ELSE IF l.error THEN Return(l.st, Sentinel)
       ELSE IF c.error THEN Return(c.st, Sentinel)
       ELSE Return([u.st EXCEPT !.shaderProgramMap = MapPut(@, shaderProgram, programData)],
                   shaderProgram)

\* glDeleteProgram: a program that is current is only flagged and stays
\* current (and its name in use) until another program is made current.
glDeleteProgram(s, shader) ==
    Call(IF shader \notin s.gl.programs THEN s
         ELSE IF shader = s.gl.program THEN [s EXCEPT !.gl.flagged = @ \cup {shader}]
         ELSE [s EXCEPT !.gl.programs = @ \ {shader}],
         <<"glDeleteProgram", shader>>)

RECURSIVE DeleteShadersLoop(_, _, _, _)
DeleteShadersLoop(s, shader, shaders, k) ==
    IF k > Len(shaders) THEN s
    ELSE LET s1 == Call(s, <<"glDetachShader", shader, shaders[k]>>)
             s2 == Call([s1 EXCEPT !.gl.shaders = @ \ {shaders[k]}],
                        <<"glDeleteShader", shaders[k]>>)
         IN DeleteShadersLoop(s2, shader, shaders, k + 1)

ReleaseShaderProgram(s, shader) ==
    IF shader = 0 THEN Return(s, 0)
    ELSE IF shader \notin DOMAIN s.shaderProgramMap THEN Return(s, 0)
    ELSE LET s1 == DeleteShadersLoop(s, shader, s.shaderProgramMap[shader].shaders, 1)
             s2 == glDeleteProgram(s1, shader)
         IN Return([s2 EXCEPT !.shaderProgramMap = MapDel(@, shader)], 0)

\* ------------------------------------------------- uniforms and samplers
\* shaderProgramMap[shader] and uniformMap[name] are operator[]: an absent
\* key is inserted with a value-initialised entry.
ProgramEntry(s, shader) ==
    IF shader \in DOMAIN s.shaderProgramMap THEN s
    ELSE [s EXCEPT !.shaderProgramMap =
             MapPut(@, shader, [shaders |-> <<>>, uniformMap |-> EmptyMap, samplerMap |-> EmptyMap])]

\* glBindBufferBase also binds the buffer to the generic binding point.
glBindBufferBase(s, target, index, buffer) ==
    LET known == buffer = 0 \/ buffer \in DOMAIN s.gl.buffers
        g == IF known THEN [s.gl EXCEPT !.uniformBuf = buffer]
             ELSE IF s.strict THEN s.gl
             ELSE [s.gl EXCEPT !.uniformBuf = buffer, !.buffers = MapPut(@, buffer, 0)]
    IN Call([s EXCEPT !.gl = g], <<"glBindBufferBase", target, index, buffer>>)

SetShaderUniformBuffer(s, shader, uniformBufferName, buffer) ==
    LET s1 == ProgramEntry(SetShader(s, shader), shader)
        m == s1.shaderProgramMap[shader].uniformMap
        s2 == IF uniformBufferName \in DOMAIN m THEN s1
              ELSE [s1 EXCEPT !.shaderProgramMap[shader].uniformMap = MapPut(@, uniformBufferName, 0)]
    IN glBindBufferBase(s2, "GL_UNIFORM_BUFFER",
                        s2.shaderProgramMap[shader].uniformMap[uniformBufferName], buffer)

SetShaderSampler(s, shader, samplerName, texture, sampler, unit) ==
    LET s1 == SetShader(s, shader)
        s2 == Call(s1, <<"glActiveTexture", unit>>)
        s3 == Call(s2, <<"glBindTexture", "GL_TEXTURE_2D", texture>>)
        s4 == Call(s3, <<"glBindSampler", unit, sampler>>)
        s5 == ProgramEntry(s4, shader)
        m == s5.shaderProgramMap[shader].samplerMap
        s6 == IF samplerName \in DOMAIN m THEN s5
              ELSE [s5 EXCEPT !.shaderProgramMap[shader].samplerMap = MapPut(@, samplerName, 0)]
    IN Call(s6, <<"glUniform1i", s6.shaderProgramMap[shader].samplerMap[samplerName], unit>>)

\* SetShaderInt, IntArray, Float, Float2, Float3, Float4, Mat3 and Mat4 differ
\* only in the glUniform* call they end with (setter); location is what
\* glGetUniformLocation answers.
SetShaderValue(s, setter, shader, name, location) ==
    LET s1 == SetShader(s, shader)
        s2 == Call(s1, <<"glGetUniformLocation", shader, name>>)
    IN Call(s2, <<setter, location>>)

UniformSetters == {"glUniform1i", "glUniform1iv", "glUniform1f", "glUniform2f", "glUniform3f",
                   "glUniform4f", "glUniformMatrix3fv", "glUniformMatrix4fv"}

\* ------------------------------------------------------------ Clear, Draw
\* Clear that sets the depth bit whatever the depth flag says.
Clear_DepthBitAlways(s, fbo, shouldClearColor, shouldClearDepth, shouldClearStencil, color, stencil) ==
    LET s1 == SetFBO(s, fbo)
        s2 == IF shouldClearColor THEN Call(s1, <<"glClearColor", color>>) ELSE s1
        s3 == IF shouldClearStencil THEN SetStencilWriteMask(s2, stencil) ELSE s2
        flags == (IF shouldClearColor THEN {"GL_COLOR_BUFFER_BIT"} ELSE {})
                 \cup {"GL_DEPTH_BUFFER_BIT"}
                 \cup (IF shouldClearStencil THEN {"GL_STENCIL_BUFFER_BIT"} ELSE {})
    IN Call(s3, <<"glClear", flags>>)

Clear(s, fbo, shouldClearColor, shouldClearDepth, shouldClearStencil, color, stencil) ==
    LET s1 == SetFBO(s, fbo)
        s2 == IF shouldClearColor THEN Call(s1, <<"glClearColor", color>>) ELSE s1
        s3 == IF shouldClearStencil THEN SetStencilWriteMask(s2, stencil) ELSE s2
        flags == (IF shouldClearColor THEN {"GL_COLOR_BUFFER_BIT"} ELSE {})
                 \cup (IF shouldClearDepth THEN {"GL_DEPTH_BUFFER_BIT"} ELSE {})
                 \cup (IF shouldClearStencil THEN {"GL_STENCIL_BUFFER_BIT"} ELSE {})
    IN Call(s3, <<"glClear", flags>>)

\* SetDrawParameters that applies the depth test before the other three.
SetDrawParameters_DepthFirst(s, drawParameters) ==
    LET s1 == SetDepthTest(s, drawParameters.shouldWriteDepth, drawParameters.depthFunc)
        s2 == SetBlending(s1, drawParameters.sourceBlend, drawParameters.destBlend)
        s3 == SetScissorTest(s2, drawParameters.useScissorTest, drawParameters.scissorStartX,
                             drawParameters.scissorStartY, drawParameters.scissorWidth,
                             drawParameters.scissorHeight)
    IN SetFaceCulling(s3, drawParameters.faceCulling)

SetDrawParameters(s, drawParameters) ==
    LET s1 == SetBlending(s, drawParameters.sourceBlend, drawParameters.destBlend)
        s2 == SetScissorTest(s1, drawParameters.useScissorTest, drawParameters.scissorStartX,
                             drawParameters.scissorStartY, drawParameters.scissorWidth,
                             drawParameters.scissorHeight)
        s3 == SetFaceCulling(s2, drawParameters.faceCulling)
    IN SetDepthTest(s3, drawParameters.shouldWriteDepth, drawParameters.depthFunc)

\* Draw without the early return on an instance count of zero.
Draw_NoEarlyReturn(s, fbo, shader, vao, drawParameters, numInstances, numElements) ==
    LET s1 == SetFBO(s, fbo)
        s2 == SetViewport(s1, fbo)
        s3 == SetDrawParameters(s2, drawParameters)
        s4 == SetShader(s3, shader)
        s5 == SetVAO(s4, vao)
    IN IF numInstances = 1
       THEN Call(s5, <<"glDrawElements", drawParameters.primitiveType, numElements>>)
       ELSE Call(s5, <<"glDrawElementsInstanced", drawParameters.primitiveType,
                       numElements, numInstances>>)

\* Draw that never uses the instanced draw call.
Draw_NeverInstanced(s, fbo, shader, vao, drawParameters, numInstances, numElements) ==
    IF numInstances = 0 THEN s
    ELSE LET s1 == SetFBO(s, fbo)
             s2 == SetViewport(s1, fbo)
             s3 == SetDrawParameters(s2, drawParameters)
             s4 == SetShader(s3, shader)
             s5 == SetVAO(s4, vao)
         IN Call(s5, <<"glDrawElements", drawParameters.primitiveType, numElements>>)

Draw(s, fbo, shader, vao, drawParameters, numInstances, numElements) ==
    IF numInstances = 0 THEN s
    ELSE LET s1 == SetFBO(s, fbo)
             s2 == SetViewport(s1, fbo)
             s3 == SetDrawParameters(s2, drawParameters)
             s4 == SetShader(s3, shader)
             s5 == SetVAO(s4, vao)
         IN IF numInstances = 1
            THEN Call(s5, <<"glDrawElements", drawParameters.primitiveType, numElements>>)
            ELSE Call(s5, <<"glDrawElementsInstanced", drawParameters.primitiveType,
                            numElements, numInstances>>)

\* ------------------------------------------------------ process-wide state
\* GlobalInit: initialized is the static flag isInitialized, a says for each
\* of the three SDL_GL_SetAttribute calls (profile, major, minor) whether it
\* succeeded.  The result is [isInitialized, calls, ret].
\* GlobalInit that never consults the flag.
GlobalInit_NeverRemembers(initialized, a) ==
    LET ok == a.profile /\ a.major /\ a.minor
    IN [isInitialized |-> ok,
        calls |-> <<<<"SDL_GL_SetAttribute", "SDL_GL_CONTEXT_PROFILE_MASK">>,
                    <<"SDL_GL_SetAttribute", "SDL_GL_CONTEXT_MAJOR_VERSION">>,
                    <<"SDL_GL_SetAttribute", "SDL_GL_CONTEXT_MINOR_VERSION">>>>,
        ret |-> <<ok>>]

GlobalInit(initialized, a) ==
    IF initialized THEN [isInitialized |-> TRUE, calls |-> <<>>, ret |-> <<TRUE>>]
    ELSE LET ok == a.profile /\ a.major /\ a.minor
         IN [isInitialized |-> ok,
             calls |-> <<<<"SDL_GL_SetAttribute", "SDL_GL_CONTEXT_PROFILE_MASK">>,
                         <<"SDL_GL_SetAttribute", "SDL_GL_CONTEXT_MAJOR_VERSION">>,
                         <<"SDL_GL_SetAttribute", "SDL_GL_CONTEXT_MINOR_VERSION">>>>,
             ret |-> <<ok>>]

\* ------------------------------------------------------------ construction
\* The cached snapshot after the constructor's initialiser list.  The
\* constructor gives viewportWidth and viewportHeight no value: they hold
\* whatever the memory held (w0, h0).
InitCache(w0, h0) ==
    [boundFBO |-> 0, viewportFBO |-> 0, viewportWidth |-> w0, viewportHeight |-> h0,
     boundVAO |-> 0, boundShader |-> 0,
     currentFaceCulling |-> "FACE_CULL_NONE",
     currentDepthFunc |-> "DRAW_FUNC_ALWAYS",
     currentSourceBlend |-> "BLEND_FUNC_NONE",
     currentDestBlend |-> "BLEND_FUNC_NONE",
     currentStencilFunc |-> "DRAW_FUNC_ALWAYS",
     currentStencilTestMask |-> FullMask,
     currentStencilWriteMask |-> FullMask,
     currentStencilComparisonVal |-> 0,
     currentStencilFail |-> "STENCIL_KEEP",
     currentStencilPassButDepthFail |-> "STENCIL_KEEP",
     currentStencilPass |-> "STENCIL_KEEP",
     blendingEnabled |-> FALSE,
     shouldWriteDepth |-> FALSE,
     stencilTestEnabled |-> FALSE,
     scissorTestEnabled |-> FALSE,
     currentPackAlignment |-> 0,
     currentUnpackAlignment |-> 0]

\* The API's state in a fresh context for a window of size w x h that
\* reports version ver, before the constructor's calls.
FreshContext(w, h, ver) ==
    [fbBound |-> 0, framebuffers |-> {},
     vaBound |-> 0, vertexArrays |-> {}, elemBuf |-> [v \in 0..MaxVaoName |-> 0],
     buffers |-> EmptyMap, arrayBuf |-> 0, uniformBuf |-> 0, mapped |-> "NULL",
     program |-> 0, programs |-> {}, flagged |-> {}, shaders |-> {},
     samplers |-> {}, textures |-> {},
     viewport |-> <<0, 0, w, h>>, scissorBox |-> <<0, 0, w, h>>,
     enabled |-> {}, cullFace |-> "FACE_CULL_BACK",
     depthMask |-> TRUE, depthFunc |-> "DRAW_FUNC_LESS",
     blendFunc |-> <<"BLEND_FUNC_ONE", "BLEND_FUNC_ZERO">>,
     stencilFunc |-> <<"DRAW_FUNC_ALWAYS", FullMask, 0>>,
     stencilOp |-> <<"STENCIL_KEEP", "STENCIL_KEEP", "STENCIL_KEEP">>,
     stencilMask |-> FullMask,
     packAlignment |-> 4, unpackAlignment |-> 4,
     version |-> ver]

\* The constructor: the record of the window surface under handle 0, then
\* glEnable(GL_DEPTH_TEST), glDepthFunc, glDepthMask, glFrontFace.
OpenGLRenderDevice(w, h, w0, h0, ver, strict) ==
    LET s0 == [cache |-> InitCache(w0, h0), gl |-> FreshContext(w, h, ver), calls |-> <<>>,
               fboMap |-> [x \in {0} |-> [width |-> w, height |-> h]],
               vaoMap |-> EmptyMap, shaderProgramMap |-> EmptyMap,
               version |-> 0, shaderVersion |-> "", strict |-> strict, ret |-> <<>>]
        s1 == glEnable(s0, "GL_DEPTH_TEST")
        s2 == glDepthFunc(s1, "DRAW_FUNC_ALWAYS")
        s3 == glDepthMask(s2, FALSE)
    IN Call(s3, <<"glFrontFace", "GL_CCW">>)

\* The device's state as the record the operations work on, with an empty
\* call log and no result yet.
Cur ==
    [cache |-> cache, gl |-> gl, calls |-> <<>>, fboMap |-> fboMap, vaoMap |-> vaoMap,
     shaderProgramMap |-> shaderProgramMap, version |-> version,
     shaderVersion |-> shaderVersion, strict |-> glStrict, ret |-> <<>>]

\* The version queries in a log: the calls glGetIntegerv(GL_MAJOR_VERSION).
VersionQueries(log) ==
    Len(SelectSeq(log, LAMBDA c : c[1] = "glGetIntegerv" /\ c[2] = "GL_MAJOR_VERSION"))

\* One operation: the state it leaves, its log and its result.  op is the
\* call just made and repeated says that the call before it was the same
\* operation with the same arguments; queried counts the version queries
\* made since construction (up to MaxCalls).
Step(s, name, args) ==
    /\ cache' = s.cache
    /\ gl' = s.gl
    /\ calls' = s.calls
    /\ fboMap' = s.fboMap
    /\ vaoMap' = s.vaoMap
    /\ shaderProgramMap' = s.shaderProgramMap
    /\ version' = s.version
    /\ shaderVersion' = s.shaderVersion
    /\ ret' = s.ret
    /\ op' = [name |-> name, args |-> args]
    /\ glStrict' = glStrict
    /\ nCalls' = IF nCalls < MaxCalls THEN nCalls + 1 ELSE nCalls
    /\ repeated' = (op.name = name /\ op.args = args)
    /\ queried' = IF queried + VersionQueries(s.calls) < MaxCalls
                  THEN queried + VersionQueries(s.calls) ELSE MaxCalls
    /\ UNCHANGED <<isInitialized, initResults>>

\* An operation of a run that has made fewer than MaxCalls calls so far.
Within(Operation) == nCalls < MaxCalls /\ Operation

\* An operation of a run that stops one call earlier.
Early(Operation) == nCalls + 1 < MaxCalls /\ Operation

\* The window is square (w x w); Garbage are the pairs the two uninitialised
\* viewport fields may hold.
\* Inits are the results GlobalInit may have returned before the device was
\* constructed: none (it was not called), <<TRUE>> or <<FALSE>>.
InitProcess(WinDims, Garbage, Versions, Stricts, Inits) ==
    \E w \in WinDims, g \in Garbage, ver \in Versions, strict \in Stricts, inits \in Inits :
        LET h == w
            s == OpenGLRenderDevice(w, h, g[1], g[2], ver, strict)
        IN /\ cache = s.cache
           /\ gl = s.gl
           /\ calls = s.calls
           /\ fboMap = s.fboMap
           /\ vaoMap = s.vaoMap
           /\ shaderProgramMap = s.shaderProgramMap
           /\ version = s.version
           /\ shaderVersion = s.shaderVersion
           /\ ret = s.ret
           /\ op = [name |-> "OpenGLRenderDevice", args |-> <<w, h>>]
           /\ glStrict = strict
           /\ nCalls = 0
           /\ repeated = FALSE
           /\ queried = 0
           /\ isInitialized = (inits = <<TRUE>>)
           /\ initResults = inits

\* A device constructed after a GlobalInit that succeeded.
InitWith(WinDims, Garbage, Versions, Stricts) ==
    InitProcess(WinDims, Garbage, Versions, Stricts, {<<TRUE>>})

\* -------------------------------------------------------------- operations
\* The names the API has not handed out (or has taken back).
FreeBuffers == BufferNames \ DOMAIN gl.buffers

FreeVaos == VaoNames \ gl.vertexArrays

FreeObjects == ObjectNames \ (gl.programs \cup gl.shaders)

FreeSamplers == AuxNames \ gl.samplers

FreeTextures == AuxNames \ gl.textures

RECURSIVE SortedSeq(_)
SortedSeq(S) ==
    IF S = {} THEN <<>>
    ELSE LET m == CHOOSE x \in S : \A y \in S : x <= y
         IN <<m>> \o SortedSeq(S \ {m})

\* Each action below is one call of a public operation (or, for the Set*
\* actions, of a state-cache setter) with arguments drawn from the given sets.
CreateRenderTargetAct(Textures, Sizes) ==
    \E fbo \in FreeBuffers, texture \in Textures, width \in Sizes, height \in Sizes :
        Step(CreateRenderTarget(Cur, fbo, texture, width, height, "ATTACHMENT_COLOR", 0, 0),
             "CreateRenderTarget", <<texture, width, height>>)

UpdateRenderTargetAct(Fbos, Sizes) ==
    \E fbo \in Fbos, width \in Sizes, height \in {MaxDim} :
        Step(UpdateRenderTarget(Cur, fbo, width, height),
             "UpdateRenderTarget", <<fbo, width, height>>)

ReleaseRenderTargetAct(Fbos) ==
    \E fbo \in Fbos :
        Step(ReleaseRenderTarget(Cur, fbo), "ReleaseRenderTarget", <<fbo>>)

\* Shapes are the records [sizes, numVertexComponents]: the element sizes of
\* the components and how many of them are per-vertex.  The API may hand out
\* any unused names; the array gets any unused name (a released one or
\* another), its buffers the lowest unused ones.
CreateVertexArrayAct(Shapes, HasData, Counts, IndexCounts, Usages) ==
    \E vao \in FreeVaos, shape \in Shapes, hasData \in HasData,
       numVertices \in Counts, numIndices \in IndexCounts, usage \in Usages :
        /\ Cardinality(FreeBuffers) >= Len(shape.sizes) + 1
        /\ Step(CreateVertexArray(Cur, vao, SubSeq(SortedSeq(FreeBuffers), 1, Len(shape.sizes) + 1),
                                  hasData, shape.sizes, shape.numVertexComponents,
                                  numVertices, numIndices, usage),
                "CreateVertexArray",
                <<shape.sizes, shape.numVertexComponents, hasData, numVertices, numIndices, usage>>)

\* The buffer indices the caller passes for a registered array are those of
\* its backing buffers and, for k in Beyond, the index k places behind the
\* last of them; Strays are the values the reads behind the arrays may yield.
UpdateVertexArrayBufferAct(Vaos, Sizes, Beyond, Strays) ==
    \E vao \in Vaos, dataSize \in Sizes, a \in Strays :
        \E bufferIndex \in (IF vao \in DOMAIN vaoMap
                            THEN 0..(vaoMap[vao].numBuffers - 1)
                                 \cup {vaoMap[vao].numBuffers + k : k \in Beyond}
                            ELSE {0}) :
            Step(UpdateVertexArrayBuffer(Cur, vao, bufferIndex, dataSize, a),
                 "UpdateVertexArrayBuffer", <<vao, bufferIndex, dataSize, a>>)

ReleaseVertexArrayAct(Vaos) ==
    \E vao \in Vaos :
        Step(ReleaseVertexArray(Cur, vao), "ReleaseVertexArray", <<vao>>)

CreateSamplerAct(SamplerArgs) ==
    \E result \in FreeSamplers, a \in SamplerArgs :
        Step(CreateSampler(Cur, result, a), "CreateSampler", <<a>>)

ReleaseSamplerAct(Samplers) ==
    \E sampler \in Samplers :
        Step(ReleaseSampler(Cur, sampler), "ReleaseSampler", <<sampler>>)

CreateTexture2DAct(TextureArgs) ==
    \E textureHandle \in FreeTextures, a \in TextureArgs :
        Step(CreateTexture2D(Cur, textureHandle, a), "CreateTexture2D", <<a>>)

ReleaseTexture2DAct(Textures) ==
    \E texture2D \in Textures :
        Step(ReleaseTexture2D(Cur, texture2D), "ReleaseTexture2D", <<texture2D>>)

CreateUniformBufferAct(Sizes, Usages) ==
    \E ubo \in FreeBuffers, dataSize \in Sizes, usage \in Usages :
        Step(CreateUniformBuffer(Cur, ubo, dataSize, usage),
             "CreateUniformBuffer", <<dataSize, usage>>)

UpdateUniformBufferAct(Buffers, Sizes) ==
    \E buffer \in Buffers, dataSize \in Sizes, mapFails \in BOOLEAN :
        Step(UpdateUniformBuffer(Cur, buffer, dataSize, mapFails),
             "UpdateUniformBuffer", <<buffer, dataSize>>)

ReleaseUniformBufferAct(Buffers) ==
    \E buffer \in Buffers :
        Step(ReleaseUniformBuffer(Cur, buffer), "ReleaseUniformBuffer", <<buffer>>)

\* The n-th lowest unused object name, 0 when fewer than n are left.
NthFree(n) ==
    LET free == SortedSeq(FreeObjects)
    IN IF n <= Len(free) THEN free[n] ELSE 0

\* What the API may answer during CreateShaderProgram: the names are the
\* lowest unused ones, or 0 (a failed creation) for the objects listed in
\* Zeros and when no name is left; the first failing stage is one of Fails
\* ("vertex" and "fragment" compile, "link", "validate", or "none").
ShaderAnswers(Reflections, Fails, Zeros) ==
    {[shaderProgram |-> p, vertexShader |-> v, fragmentShader |-> f,
      vertexCompiled |-> fail # "vertex", fragmentCompiled |-> fail # "fragment",
      linked |-> fail # "link", valid |-> fail # "validate",
      numActiveAttributes |-> refl.numActiveAttributes,
      blocks |-> refl.blocks, uniforms |-> refl.uniforms] :
        p \in {NthFree(1)} \cup (IF "program" \in Zeros THEN {0} ELSE {}),
        v \in {NthFree(2)} \cup (IF "vertex" \in Zeros THEN {0} ELSE {}),
        f \in {NthFree(3)} \cup (IF "fragment" \in Zeros THEN {0} ELSE {}),
        fail \in Fails, refl \in Reflections}

CreateShaderProgramAct(Texts, Reflections, Fails, Zeros) ==
    \E shaderText \in Texts, a \in ShaderAnswers(Reflections, Fails, Zeros) :
        Step(CreateShaderProgram(Cur, shaderText, a), "CreateShaderProgram", <<shaderText, a>>)

ReleaseShaderProgramAct(Shaders) ==
    \E shader \in Shaders :
        Step(ReleaseShaderProgram(Cur, shader), "ReleaseShaderProgram", <<shader>>)

SetShaderUniformBufferAct(Shaders, Names, Buffers) ==
    \E shader \in Shaders, uniformBufferName \in Names, buffer \in Buffers :
        Step(SetShaderUniformBuffer(Cur, shader, uniformBufferName, buffer),
             "SetShaderUniformBuffer", <<shader, uniformBufferName, buffer>>)

SetShaderSamplerAct(Shaders, Names, Textures, Samplers, Units) ==
    \E shader \in Shaders, samplerName \in Names, texture \in Textures,
       sampler \in Samplers, unit \in Units :
        Step(SetShaderSampler(Cur, shader, samplerName, texture, sampler, unit),
             "SetShaderSampler", <<shader, samplerName, texture, sampler, unit>>)

SetShaderValueAct(Setters, Shaders, Names, Locations) ==
    \E setter \in Setters, shader \in Shaders, name \in Names, location \in Locations :
        Step(SetShaderValue(Cur, setter, shader, name, location),
             "SetShaderValue", <<setter, shader, name>>)

ClearAct(Fbos, StencilValues) ==
    \E fbo \in Fbos, shouldClearColor \in BOOLEAN, shouldClearDepth \in BOOLEAN,
       shouldClearStencil \in BOOLEAN, stencil \in StencilValues :
        Step(Clear(Cur, fbo, shouldClearColor, shouldClearDepth, shouldClearStencil,
                   "rgba", stencil),
             "Clear", <<fbo, shouldClearColor, shouldClearDepth, shouldClearStencil, stencil>>)

DrawAct(Fbos, Shaders, Vaos, Params, Instances, Elements) ==
    \E fbo \in Fbos, shader \in Shaders, vao \in Vaos, drawParameters \in Params,
       numInstances \in Instances, numElements \in Elements :
        Step(Draw(Cur, fbo, shader, vao, drawParameters, numInstances, numElements),
             "Draw", <<fbo, shader, vao, drawParameters, numInstances, numElements>>)

\* GlobalInit works on the static flag alone; initResults records what the
\* calls so far returned (at most MaxCalls of them).
GlobalInitAct ==
    \E profile \in BOOLEAN, major \in BOOLEAN, minor \in BOOLEAN :
        LET a == [profile |-> profile, major |-> major, minor |-> minor]
            r == GlobalInit(isInitialized, a)
        IN /\ Len(initResults) < MaxCalls
           /\ isInitialized' = r.isInitialized
           /\ calls' = r.calls
           /\ ret' = r.ret
           /\ initResults' = Append(initResults, r.ret[1])
           /\ op' = [name |-> "GlobalInit", args |-> <<a>>]
           /\ nCalls' = IF nCalls < MaxCalls THEN nCalls + 1 ELSE nCalls
           /\ repeated' = (op.name = "GlobalInit" /\ op.args = <<a>>)
           /\ UNCHANGED <<cache, gl, fboMap, vaoMap, shaderProgramMap, version, shaderVersion,
                          glStrict, queried>>

GetVersionAct ==
    Step(GetVersion(Cur), "GetVersion", <<>>)

GetShaderVersionAct ==
    Step(GetShaderVersion(Cur), "GetShaderVersion", <<>>)

SetFBOAct(Fbos) ==
    \E fbo \in Fbos : Step(SetFBO(Cur, fbo), "SetFBO", <<fbo>>)

SetViewportAct(Fbos) ==
    \E fbo \in Fbos : Step(SetViewport(Cur, fbo), "SetViewport", <<fbo>>)

SetVAOAct(Vaos) ==
    \E vao \in Vaos : Step(SetVAO(Cur, vao), "SetVAO", <<vao>>)

SetShaderAct(Shaders) ==
    \E shader \in Shaders : Step(SetShader(Cur, shader), "SetShader", <<shader>>)

SetFaceCullingAct(Cullings) ==
    \E faceCulling \in Cullings :
        Step(SetFaceCulling(Cur, faceCulling), "SetFaceCulling", <<faceCulling>>)

SetDepthTestAct(Funcs) ==
    \E shouldWrite \in BOOLEAN, depthFunc \in Funcs :
        Step(SetDepthTest(Cur, shouldWrite, depthFunc), "SetDepthTest", <<shouldWrite, depthFunc>>)

SetBlendingAct(Blends) ==
    \E sourceBlend \in Blends, destinationBlend \in Blends :
        Step(SetBlending(Cur, sourceBlend, destinationBlend),
             "SetBlending", <<sourceBlend, destinationBlend>>)

SetStencilTestAct(StencilArgs) ==
    \E a \in StencilArgs : Step(SetStencilTest(Cur, a), "SetStencilTest", <<a>>)

SetStencilWriteMaskAct(StencilValues) ==
    \E mask \in StencilValues :
        Step(SetStencilWriteMask(Cur, mask), "SetStencilWriteMask", <<mask>>)

SetScissorTestAct(Coords) ==
    \E enable \in BOOLEAN, width \in Coords :
        Step(SetScissorTest(Cur, enable, 0, 0, width, width),
             "SetScissorTest", <<enable, 0, 0, width, width>>)

\* ------------------------------------------------------- argument values
DefaultDraw ==
    [primitiveType |-> "PRIMITIVE_TRIANGLES", faceCulling |-> "FACE_CULL_NONE",
     depthFunc |-> "DRAW_FUNC_ALWAYS", shouldWriteDepth |-> FALSE,
     useScissorTest |-> FALSE, scissorStartX |-> 0, scissorStartY |-> 0,
     scissorWidth |-> 0, scissorHeight |-> 0,
     sourceBlend |-> "BLEND_FUNC_NONE", destBlend |-> "BLEND_FUNC_NONE"]

DrawParams ==
    {DefaultDraw,
     [DefaultDraw EXCEPT !.faceCulling = "FACE_CULL_BACK", !.depthFunc = "DRAW_FUNC_LESS",
                         !.shouldWriteDepth = TRUE, !.useScissorTest = TRUE,
                         !.scissorWidth = 1, !.scissorHeight = 1,
                         !.sourceBlend = "BLEND_FUNC_SRC_ALPHA", !.destBlend = "BLEND_FUNC_ONE"],
     [DefaultDraw EXCEPT !.faceCulling = "FACE_CULL_FRONT", !.useScissorTest = TRUE,
                         !.scissorWidth = 1, !.scissorHeight = 1,
                         !.sourceBlend = "BLEND_FUNC_ONE", !.destBlend = "BLEND_FUNC_ONE"],
     [DefaultDraw EXCEPT !.sourceBlend = "BLEND_FUNC_ONE"]}

DefaultStencil ==
    [enable |-> FALSE, stencilFunc |-> "DRAW_FUNC_ALWAYS", stencilTestMask |-> FullMask,
     stencilWriteMask |-> FullMask, stencilComparisonVal |-> 0, stencilFail |-> "STENCIL_KEEP",
     stencilPassButDepthFail |-> "STENCIL_KEEP", stencilPass |-> "STENCIL_KEEP"]

StencilParams ==
    {DefaultStencil,
     [DefaultStencil EXCEPT !.enable = TRUE, !.stencilFunc = "DRAW_FUNC_LESS",
                            !.stencilPass = "STENCIL_REPLACE"],
     [DefaultStencil EXCEPT !.enable = TRUE, !.stencilComparisonVal = 1, !.stencilWriteMask = 0]}

SamplerParams ==
    {[minFilter |-> "FILTER_NEAREST", magFilter |-> "FILTER_NEAREST",
      wrapU |-> "WRAP_CLAMP", wrapV |-> "WRAP_CLAMP", anisotropy |-> 1],
     [minFilter |-> "FILTER_LINEAR_MIPMAP_LINEAR", magFilter |-> "FILTER_LINEAR",
      wrapU |-> "WRAP_REPEAT", wrapV |-> "WRAP_REPEAT", anisotropy |-> 1]}

TextureParams ==
    {[width |-> 1, height |-> 1, dataFormat |-> "FORMAT_RGBA", internalFormat |-> "FORMAT_RGBA",
      generateMipmaps |-> (al = 1), compress |-> FALSE, packAlignment |-> al,
      unpackAlignment |-> 4] : al \in {1, 4}}

\* A text with a version directive and a newline after it, one without the
\* directive, one whose directive is not followed by a newline.
GoodText == <<"#", "v", "\n", "x">>

ShaderTexts == {GoodText, <<"x", "\n">>, <<"#", "v">>}

\* More texts: empty, without directive, with a newline only before the
\* directive, with half a directive, with the directive on a later line.
MoreShaderTexts ==
    ShaderTexts \cup {<<>>, <<"x">>, <<"\n", "#", "v">>, <<"#", "x", "\n">>,
                      <<"#", "v", "\n">>, <<"x", "\n", "#", "v", "\n", "x">>}

AllFails == {"none", "vertex", "fragment", "link", "validate"}

Reflection ==
    {[numActiveAttributes |-> 1, blocks |-> <<"Matrices">>,
      uniforms |-> <<[name |-> "diffuse", type |-> "GL_SAMPLER_2D", location |-> 1]>>]}

\* A per-vertex component of 5 floats and a per-instance one of 8; two
\* per-vertex components of 3 and 5.
VAShapes ==
    {[sizes |-> <<5, 8>>, numVertexComponents |-> 1],
     [sizes |-> <<3, 5>>, numVertexComponents |-> 2]}

\* Element sizes below, at and above the width of one attribute slot, in
\* per-vertex and in per-instance components.
AttrShapes ==
    {[sizes |-> <<5, 8>>, numVertexComponents |-> 1],
     [sizes |-> <<4, 3>>, numVertexComponents |-> 2],
     [sizes |-> <<8, 4>>, numVertexComponents |-> 0],
     [sizes |-> <<1, 6>>, numVertexComponents |-> 1]}

\* What a read behind the end of an array's buffer-handle and capacity
\* sequences may yield: zeros, or the name of a live buffer and a capacity
\* above every update.  NoStray is for calls that make no such read.
NoStray == [buffer |-> 0, size |-> 0]

Strays == {NoStray, [buffer |-> 1, size |-> 64]}

\* Byte sizes passed to UpdateVertexArrayBuffer: below, between and above
\* the capacities CreateVertexArray records.
UpdateSizes == {4, 24, 48}

\* ------------------------------------------------------ the specification
\* The handles a caller passes: 0, the names the API hands out, and so also
\* handles that were released or never created.
FboHandles == 0..MaxBufferName

VaoHandles == 0..MaxVaoName

ShaderHandles == 0..MaxObjectName

AuxHandles == 0..MaxAuxName

\* The state cache on its own: the ten setters called directly, the resize
\* of the window surface, and CreateTexture2D (which keeps the two pixel
\* store alignments), in runs of at most MaxCalls calls.
InitCacheSpec == InitWith({MaxDim}, {<<0, 0>>, <<MaxDim, MaxDim>>}, {<<3, 3>>}, {TRUE})

NextCache ==
    \/ Within(SetFBOAct({0, 1}))
    \/ Within(SetViewportAct({0, 1}))
    \/ Within(SetVAOAct({0, 1}))
    \/ Within(SetShaderAct({0, 1}))
    \/ Within(SetFaceCullingAct(FaceCullings))
    \/ Within(SetDepthTestAct(DrawFuncs))
    \/ Within(SetBlendingAct(BlendFuncs))
    \/ Within(SetStencilTestAct(StencilParams))
    \/ Within(SetStencilWriteMaskAct(Masks))
    \/ Within(SetScissorTestAct({0, 1}))
    \/ Within(UpdateRenderTargetAct({0}, Dims))
    \/ Within(CreateTexture2DAct(TextureParams))

SpecCache == InitCacheSpec /\ [][NextCache]_vars

\* Vertex arrays: creation, buffer updates and release, in any order and
\* without end, in a strict and in a lenient context.
InitVA == InitWith({MaxDim}, {<<0, 0>>}, {<<3, 3>>}, BOOLEAN)

NextVA ==
    \/ CreateVertexArrayAct(VAShapes, {TRUE}, {1, 2}, {3}, BufferUsages)
    \/ UpdateVertexArrayBufferAct(VaoHandles, UpdateSizes, {}, {NoStray})
    \/ ReleaseVertexArrayAct(VaoHandles)

SpecVA == InitVA /\ [][NextVA]_vars

\* The attribute layout: vertex arrays of every shape, with and without
\* vertex data and with either usage, then updated and released.
InitAttr == InitWith({MaxDim}, {<<0, 0>>}, {<<3, 3>>}, {TRUE})

NextAttr ==
    \/ CreateVertexArrayAct(AttrShapes, BOOLEAN, {2}, {3}, BufferUsages)
    \/ UpdateVertexArrayBufferAct(VaoHandles, {48}, {}, {NoStray})
    \/ ReleaseVertexArrayAct(VaoHandles)

SpecAttr == InitAttr /\ [][NextAttr]_vars

\* Shader programs: creation from every text, creation of a well-formed
\* text with every failure the API may report, and release.
InitShader == InitWith({MaxDim}, {<<0, 0>>}, {<<3, 3>>}, {TRUE})

NextShader ==
    \/ CreateShaderProgramAct(MoreShaderTexts, Reflection, {"none"}, {"program"})
    \/ CreateShaderProgramAct({GoodText}, Reflection, AllFails, {"vertex", "fragment"})
    \/ ReleaseShaderProgramAct(ShaderHandles)

SpecShader == InitShader /\ [][NextShader]_vars

\* Resources of every kind created and released, in runs of at most
\* MaxCalls calls.
InitRelease == InitWith({MaxDim}, {<<0, 0>>}, {<<3, 3>>}, {TRUE})

NextRelease ==
    \/ Within(CreateRenderTargetAct({1}, {1}))
    \/ Within(ReleaseRenderTargetAct(FboHandles))
    \/ Within(CreateVertexArrayAct(VAShapes, {TRUE}, {2}, {3}, {"USAGE_STATIC_DRAW"}))
    \/ Within(ReleaseVertexArrayAct(VaoHandles))
    \/ Within(CreateSamplerAct({CHOOSE a \in SamplerParams : TRUE}))
    \/ Within(ReleaseSamplerAct(AuxHandles))
    \/ Within(CreateTexture2DAct({CHOOSE a \in TextureParams : TRUE}))
    \/ Within(ReleaseTexture2DAct(AuxHandles))
    \/ Within(CreateUniformBufferAct({8}, {"USAGE_DYNAMIC_DRAW"}))
    \/ Within(ReleaseUniformBufferAct(FboHandles))
    \/ Within(CreateShaderProgramAct({GoodText}, Reflection, {"none", "link"}, {}))
    \/ Within(ReleaseShaderProgramAct(ShaderHandles))

SpecRelease == InitRelease /\ [][NextRelease]_vars

\* Updates and releases of every kind next to the creation of the resources
\* that can be updated, in runs of at most MaxCalls calls.
Init == InitWith({MaxDim}, {<<0, 0>>}, {<<3, 3>>}, {TRUE})

Next ==
    \/ Within(CreateRenderTargetAct({1}, {1}))
    \/ Within(UpdateRenderTargetAct({0, 1}, Dims))
    \/ Within(ReleaseRenderTargetAct(FboHandles))
    \/ Within(CreateVertexArrayAct(VAShapes, {TRUE}, {2}, {3}, {"USAGE_STATIC_DRAW"}))
    \/ Within(UpdateVertexArrayBufferAct(VaoHandles, {48}, {0}, Strays))
    \/ Within(ReleaseVertexArrayAct(VaoHandles))
    \/ Within(CreateUniformBufferAct({8}, {"USAGE_DYNAMIC_DRAW"}))
    \/ Within(UpdateUniformBufferAct(FboHandles, {8}))
    \/ Within(ReleaseUniformBufferAct(FboHandles))
    \/ Within(ReleaseSamplerAct(AuxHandles))
    \/ Within(ReleaseTexture2DAct(AuxHandles))
    \/ Within(ReleaseShaderProgramAct(ShaderHandles))

Spec == Init /\ [][Next]_vars

\* Version detection on a context of any version from 1.0 to
\* MaxMajor.MaxMinor: the two queries and the creation of shader programs,
\* which asks for both.
InitVersion ==
    InitProcess({MaxDim}, {<<0, 0>>},
                {<<major, minor>> : major \in 1..MaxMajor, minor \in 0..MaxMinor}, {TRUE},
                {<<>>, <<TRUE>>, <<FALSE>>})

NextVersion ==
    \/ GlobalInitAct
    \/ GetVersionAct
    \/ GetShaderVersionAct
    \/ CreateShaderProgramAct({GoodText}, Reflection, {"none"}, {"program"})

SpecVersion == InitVersion /\ [][NextVersion]_vars

\* The three registries: creation and release of render targets, vertex
\* arrays and shader programs, and the setters that look a handle up in a
\* registry, on registered handles, on 0 and on handles of no object.  The
\* context is one with layout qualifiers (3.3) or one without (3.1), and the
\* creation of a shader program may fail at any step.
InitRegistry == InitWith({MaxDim}, {<<0, 0>>}, {<<3, 3>>, <<3, 1>>}, {TRUE})

NextRegistry ==
    \/ Early(CreateRenderTargetAct({1}, {1}))
    \/ Early(ReleaseRenderTargetAct(FboHandles))
    \/ Early(SetViewportAct({0, 1, 2}))
    \/ Early(CreateVertexArrayAct(VAShapes, {TRUE}, {1}, {3}, {"USAGE_STATIC_DRAW"}))
    \/ Early(ReleaseVertexArrayAct(VaoHandles))
    \/ Early(CreateShaderProgramAct({GoodText, <<"x", "\n">>}, Reflection, AllFails, {"vertex"}))
    \/ Early(ReleaseShaderProgramAct({0, 1, 2}))
    \/ Early(SetShaderUniformBufferAct({0, 1, 2}, {"Matrices"}, {0, 1}))
    \/ Early(SetShaderSamplerAct({0, 1, 2}, {"diffuse"}, {1}, {1}, {0, 1}))

SpecRegistry == InitRegistry /\ [][NextRegistry]_vars

\* Drawing: Draw and Clear on the window surface and on handle 1, which is
\* a render target once CreateRenderTarget has returned it and an unknown
\* handle before; the window surface is resized and the blend functions are
\* set directly in between.
\* The uninitialised viewport fields hold zeros, the size a resize gives
\* the window surface, or the size of the window.
InitDraw == InitWith({MaxDim}, {<<0, 0>>, <<1, MaxDim>>, <<MaxDim, MaxDim>>}, {<<3, 3>>}, {TRUE})

NextDraw ==
    \/ Early(DrawAct({0, 1}, {1}, {0, 1}, DrawParams, {0, 1, 2}, {3}))
    \/ Early(ClearAct({0, 1}, {1}))
    \/ Early(SetViewportAct({0, 1}))
    \/ Early(UpdateRenderTargetAct({0}, {1}))
    \/ Early(CreateRenderTargetAct({1}, {1}))
    \/ Early(SetBlendingAct(BlendFuncs))

SpecDraw == InitDraw /\ [][NextDraw]_vars

\* ------------------------------------------------------------------ claims
SetterNames ==
    {"SetFBO", "SetViewport", "SetVAO", "SetShader", "SetFaceCulling", "SetDepthTest",
     "SetBlending", "SetStencilTest", "SetStencilWriteMask", "SetScissorTest"}

\* The step is the second of two calls in a row of the same setter with the
\* same arguments.
SecondSetterCall ==
    /\ op'.name \in SetterNames
    /\ op.name = op'.name
    /\ op.args = op'.args

\* C1 as stated: a setter called twice in a row with identical arguments
\* issues no API call on the second call and leaves the cached snapshot
\* unchanged.
C1_AsStated == [][SecondSetterCall => (calls' = <<>> /\ cache' = cache)]_vars

\* C1, amended: the second of two identical setter calls in a row leaves the
\* cached snapshot unchanged and issues no API call, except that
\* SetScissorTest with enable = TRUE issues the scissor-rectangle call again
\* (that one call, with the given rectangle, and nothing else).
C1_SecondCallIsQuiet ==
    [][SecondSetterCall =>
        /\ cache' = cache
        /\ IF op'.name = "SetScissorTest" /\ op'.args[1]
           THEN calls' = << <<"glScissor", op'.args[2], op'.args[3], op'.args[4], op'.args[5]>> >>
           ELSE calls' = <<>>]_vars

\* A second identical SetScissorTest(TRUE, ...) has just re-issued the rectangle.
C1_Witness ==
    /\ repeated
    /\ op.name = "SetScissorTest"
    /\ op.args[1]
    /\ Len(calls) = 1

\* The last call of the log with the given name (the log has one).
LastCall(log, name) == LET c == CallsNamed(log, name) IN c[Len(c)]

Issued(log, name) == CallsNamed(log, name) # <<>>

IssuedCall(log, c) == \E k \in 1..Len(log) : log[k][1] = c[1] /\ log[k] = c

\* A cache field that a single call with one value argument sets: the call
\* is issued only with the value the cache then holds, and the field changes
\* only when the call is issued.
Tracks(old, new, log, name) ==
    /\ Issued(log, name) => LastCall(log, name)[2] = new
    /\ old # new => Issued(log, name)

\* A cached enable flag: glEnable(cap) only when it becomes TRUE and
\* glDisable(cap) only when it becomes FALSE, and no change without them.
TracksFlag(old, new, log, cap) ==
    /\ IssuedCall(log, <<"glEnable", cap>>) => new /\ ~old
    /\ IssuedCall(log, <<"glDisable", cap>>) => ~new /\ old
    /\ old # new => IssuedCall(log, <<(IF new THEN "glEnable" ELSE "glDisable"), cap>>)

HasNone(src, dst) == src = "BLEND_FUNC_NONE" \/ dst = "BLEND_FUNC_NONE"

CacheFollowsCalls(c, d, log) ==
    /\ Tracks(c.boundFBO, d.boundFBO, log, "glBindFramebuffer")
    /\ Tracks(c.boundVAO, d.boundVAO, log, "glBindVertexArray")
    /\ Tracks(c.boundShader, d.boundShader, log, "glUseProgram")
    /\ Issued(log, "glViewport") =>
          LastCall(log, "glViewport") = <<"glViewport", 0, 0, d.viewportWidth, d.viewportHeight>>
    /\ <<c.viewportFBO, c.viewportWidth, c.viewportHeight>>
          # <<d.viewportFBO, d.viewportWidth, d.viewportHeight>> => Issued(log, "glViewport")
    /\ Issued(log, "glCullFace") => LastCall(log, "glCullFace")[2] = d.currentFaceCulling
    /\ IssuedCall(log, <<"glDisable", "GL_CULL_FACE">>) => d.currentFaceCulling = "FACE_CULL_NONE"
    /\ c.currentFaceCulling # d.currentFaceCulling =>
          IF d.currentFaceCulling = "FACE_CULL_NONE"
          THEN IssuedCall(log, <<"glDisable", "GL_CULL_FACE">>)
          ELSE Issued(log, "glCullFace")
    /\ Tracks(c.shouldWriteDepth, d.shouldWriteDepth, log, "glDepthMask")
    /\ Tracks(c.currentDepthFunc, d.currentDepthFunc, log, "glDepthFunc")
    /\ Issued(log, "glBlendFunc") =>
          LastCall(log, "glBlendFunc")
             = <<"glBlendFunc", d.currentSourceBlend, d.currentDestBlend>>
    /\ IssuedCall(log, <<"glDisable", "GL_BLEND">>) =>
          HasNone(d.currentSourceBlend, d.currentDestBlend)
    /\ <<c.currentSourceBlend, c.currentDestBlend>> # <<d.currentSourceBlend, d.currentDestBlend>> =>
          IF HasNone(d.currentSourceBlend, d.currentDestBlend)
          THEN IssuedCall(log, <<"glDisable", "GL_BLEND">>)
          ELSE Issued(log, "glBlendFunc")
    /\ TracksFlag(c.stencilTestEnabled, d.stencilTestEnabled, log, "GL_STENCIL_TEST")
    /\ Issued(log, "glStencilFunc") =>
          LastCall(log, "glStencilFunc")
             = <<"glStencilFunc", d.currentStencilFunc, d.currentStencilTestMask,
                 d.currentStencilComparisonVal>>
    /\ <<c.currentStencilFunc, c.currentStencilTestMask, c.currentStencilComparisonVal>>
          # <<d.currentStencilFunc, d.currentStencilTestMask, d.currentStencilComparisonVal>>
          => Issued(log, "glStencilFunc")
    /\ Issued(log, "glStencilOp") =>
          LastCall(log, "glStencilOp")
             = <<"glStencilOp", d.currentStencilFail, d.currentStencilPassButDepthFail,
                 d.currentStencilPass>>
    /\ <<c.currentStencilFail, c.currentStencilPassButDepthFail, c.currentStencilPass>>
          # <<d.currentStencilFail, d.currentStencilPassButDepthFail, d.currentStencilPass>>
          => Issued(log, "glStencilOp")
    /\ Tracks(c.currentStencilWriteMask, d.currentStencilWriteMask, log, "glStencilMask")
    /\ TracksFlag(c.scissorTestEnabled, d.scissorTestEnabled, log, "GL_SCISSOR_TEST")
    /\ IssuedCall(log, <<"glPixelStorei", "GL_PACK_ALIGNMENT", d.currentPackAlignment>>)
          \/ ~\E k \in 1..Len(log) : log[k][1] = "glPixelStorei" /\ log[k][2] = "GL_PACK_ALIGNMENT"
    /\ c.currentPackAlignment # d.currentPackAlignment =>
          IssuedCall(log, <<"glPixelStorei", "GL_PACK_ALIGNMENT", d.currentPackAlignment>>)
    /\ IssuedCall(log, <<"glPixelStorei", "GL_UNPACK_ALIGNMENT", d.currentUnpackAlignment>>)
          \/ ~\E k \in 1..Len(log) : log[k][1] = "glPixelStorei" /\ log[k][2] = "GL_UNPACK_ALIGNMENT"
    /\ c.currentUnpackAlignment # d.currentUnpackAlignment =>
          IssuedCall(log, <<"glPixelStorei", "GL_UNPACK_ALIGNMENT", d.currentUnpackAlignment>>)

\* C3: in every step, a field of the cached snapshot gets a new value if and
\* only if the matching API transition call is issued in that step with that
\* value.
C3_CacheIffCall == [][CacheFollowsCalls(cache, cache', calls')]_vars

\* A step has changed the cached blend pair, stencil function and pack
\* alignment away from their initial values, each with its call.
C3_Witness ==
    /\ cache.currentSourceBlend # "BLEND_FUNC_NONE"
    /\ cache.currentStencilFunc # "DRAW_FUNC_ALWAYS"
    /\ cache.currentPackAlignment # 0
    /\ calls # <<>>

\* C2 as stated: in every reachable state the cached bound framebuffer,
\* vertex array and shader are the objects bound on the device.
C2_CacheMatchesDevice ==
    /\ cache.boundFBO = gl.fbBound
    /\ cache.boundVAO = gl.vaBound
    /\ cache.boundShader = gl.program

\* The step is an UpdateVertexArrayBuffer on an array that is registered.
UpdateOfRegistered ==
    /\ op'.name = "UpdateVertexArrayBuffer"
    /\ op'.args[1] \in DOMAIN vaoMap

\* C6: UpdateVertexArrayBuffer(vao, i, byteSize) on a registered array: with
\* byteSize at most the recorded capacity of i the buffer is overwritten in
\* place and no capacity changes; with a greater byteSize the buffer is
\* reallocated and the capacity of i becomes byteSize, the other capacities
\* staying as they are.  So no recorded capacity ever decreases.
C6_CapacityPolicy ==
    [][UpdateOfRegistered =>
        LET vao == op'.args[1]
            k == op'.args[2] + 1
            byteSize == op'.args[3]
            old == vaoMap[vao].bufferSizes
            new == vaoMap'[vao].bufferSizes
        IN /\ DOMAIN vaoMap' = DOMAIN vaoMap
           /\ \A v \in DOMAIN vaoMap : v # vao => vaoMap'[v] = vaoMap[v]
           /\ vaoMap'[vao] = [vaoMap[vao] EXCEPT !.bufferSizes = new]
           /\ IssuedCall(calls', <<"glBindBuffer", "GL_ARRAY_BUFFER", vaoMap[vao].buffers[k]>>)
           /\ IF byteSize <= old[k]
              THEN /\ new = old
                   /\ IssuedCall(calls', <<"glBufferSubData", "GL_ARRAY_BUFFER", 0, byteSize, "data">>)
                   /\ ~Issued(calls', "glBufferData")
              ELSE /\ new = [old EXCEPT ![k] = byteSize]
                   /\ Issued(calls', "glBufferData")
                   /\ LastCall(calls', "glBufferData")[3] = byteSize
                   /\ ~Issued(calls', "glBufferSubData")
           /\ \A j \in 1..Len(old) : new[j] >= old[j]]_vars

\* A buffer that an earlier update had grown to 48 bytes has just been
\* overwritten in place with fewer bytes.
C6_Witness ==
    /\ op.name = "UpdateVertexArrayBuffer"
    /\ op.args[1] \in DOMAIN vaoMap
    /\ op.args[3] < 48
    /\ vaoMap[op.args[1]].bufferSizes[op.args[2] + 1] = 48
    /\ Issued(calls, "glBufferSubData")

\* C7 as stated: in every reachable state the recorded capacity of every
\* buffer of every registered vertex array is the size of the data store the
\* API holds for that buffer.
C7_CapacityIsStoreSize ==
    \A vao \in DOMAIN vaoMap :
        \A k \in 1..Len(vaoMap[vao].buffers) :
            LET b == vaoMap[vao].buffers[k]
            IN /\ b \in DOMAIN gl.buffers
               /\ gl.buffers[b] = vaoMap[vao].bufferSizes[k]

\* The slot widths the layout rule gives a component of s floats:
\* ceil(s / 4) slots, of width 4 but for a last one of width s mod 4.
SlotWidths(s) == [k \in 1..((s + 3) \div 4) |-> IF 4 * k <= s THEN 4 ELSE s % 4]

RECURSIVE ExpectedWidths(_)
ExpectedWidths(sizes) ==
    IF sizes = <<>> THEN <<>>
    ELSE SlotWidths(Head(sizes)) \o ExpectedWidths(Tail(sizes))

\* C8: the attribute slots CreateVertexArray configures are 0, 1, 2, ... in
\* component order, without gap or repetition; component i gets ceil(s_i / 4)
\* of them, of width 4 but for a last one of width s_i mod 4 when that is
\* not 0; no slot is wider than 4.
C8_AttributeLayout ==
    op.name = "CreateVertexArray" =>
        LET expected == ExpectedWidths(op.args[1])
            pointers == CallsNamed(calls, "glVertexAttribPointer")
            enables == CallsNamed(calls, "glEnableVertexAttribArray")
        IN /\ Len(pointers) = Len(expected)
           /\ Len(enables) = Len(expected)
           /\ \A k \in 1..Len(expected) :
                 /\ pointers[k][2] = k - 1
                 /\ pointers[k][3] = expected[k]
                 /\ pointers[k][3] \in 1..4
                 /\ enables[k][2] = k - 1

\* An array with components of 5 and 8 floats has just been created: four slots.
C8_Witness ==
    /\ op.name = "CreateVertexArray"
    /\ op.args[1] = <<5, 8>>
    /\ Len(CallsNamed(calls, "glVertexAttribPointer")) = 4

RECURSIVE NumSlots(_, _)
NumSlots(sizes, n) ==
    IF n = 0 THEN 0 ELSE NumSlots(sizes, n - 1) + Len(SlotWidths(sizes[n]))

\* C9: CreateVertexArray allocates every instance-section buffer with
\* dynamic usage and no initial data, whatever usage was requested, and gives
\* divisor 1 to the slots of the instance components and to no other slot;
\* UpdateVertexArrayBuffer reallocates an instance-section buffer with
\* dynamic usage.
C9_InstanceBuffers ==
    /\ op.name = "CreateVertexArray" =>
          LET sizes == op.args[1]
              numVertexComponents == op.args[2]
              stores == SelectSeq(CallsNamed(calls, "glBufferData"),
                                  LAMBDA c : c[2] = "GL_ARRAY_BUFFER")
              divisors == CallsNamed(calls, "glVertexAttribDivisor")
              first == NumSlots(sizes, numVertexComponents)
              total == NumSlots(sizes, Len(sizes))
          IN /\ Len(stores) = Len(sizes)
             /\ \A k \in 1..Len(sizes) :
                   k > numVertexComponents =>
                      stores[k][4] = "nullptr" /\ stores[k][5] = "USAGE_DYNAMIC_DRAW"
             /\ {divisors[k][2] : k \in 1..Len(divisors)} = first..(total - 1)
             /\ \A k \in 1..Len(divisors) : divisors[k][3] = 1
    /\ (/\ op.name = "UpdateVertexArrayBuffer"
        /\ op.args[1] \in DOMAIN vaoMap
        /\ Issued(calls, "glBufferData")) =>
          LET vaoData == vaoMap[op.args[1]]
          IN (/\ op.args[2] >= vaoData.instanceComponentsStartIndex
              /\ op.args[2] < vaoData.numBuffers - 1)
                => LastCall(calls, "glBufferData")[5] = "USAGE_DYNAMIC_DRAW"

\* The instance buffer of an array created with static usage has just been
\* reallocated.
C9_Witness ==
    /\ op.name = "UpdateVertexArrayBuffer"
    /\ op.args[1] \in DOMAIN vaoMap
    /\ vaoMap[op.args[1]].usage = "USAGE_STATIC_DRAW"
    /\ op.args[2] >= vaoMap[op.args[1]].instanceComponentsStartIndex
    /\ op.args[2] < vaoMap[op.args[1]].numBuffers - 1
    /\ Issued(calls, "glBufferData")

ReleaseNames ==
    {"ReleaseRenderTarget", "ReleaseVertexArray", "ReleaseSampler", "ReleaseTexture2D",
     "ReleaseUniformBuffer", "ReleaseShaderProgram"}

\* The step is the second of two calls in a row of the same Release
\* operation on the same handle.
SecondRelease ==
    /\ op'.name \in ReleaseNames
    /\ op.name = op'.name
    /\ op.args = op'.args

RecordsAndCacheUnchanged ==
    /\ fboMap' = fboMap
    /\ vaoMap' = vaoMap
    /\ shaderProgramMap' = shaderProgramMap
    /\ cache' = cache

\* C4 as stated: the second of two Release(h) calls in a row returns 0,
\* issues no API call and changes no registry record and no cached state.
C4_AsStated ==
    [][SecondRelease => (ret' = <<0>> /\ calls' = <<>> /\ RecordsAndCacheUnchanged)]_vars

\* The delete call of the three Release operations that keep no registry.
DeleteCall(name, h) ==
    CASE name = "ReleaseSampler" -> <<"glDeleteSamplers", 1, h>>
      [] name = "ReleaseTexture2D" -> <<"glDeleteTextures", 1, h>>
      [] name = "ReleaseUniformBuffer" -> <<"glDeleteBuffers", 1, <<h>>>>

\* C4, amended: the second of two Release(h) calls in a row returns 0 and
\* changes no registry record, no cached state and nothing on the API side.
\* ReleaseRenderTarget, ReleaseVertexArray and ReleaseShaderProgram issue no
\* API call; ReleaseSampler, ReleaseTexture2D and ReleaseUniformBuffer, which
\* keep no registry, issue the delete of h once more when h is not 0 (the
\* API ignores a name that is no longer in use).
C4_SecondReleaseHarmless ==
    [][SecondRelease =>
        /\ ret' = <<0>>
        /\ RecordsAndCacheUnchanged
        /\ gl' = gl
        /\ IF /\ op'.name \in {"ReleaseSampler", "ReleaseTexture2D", "ReleaseUniformBuffer"}
              /\ op'.args[1] # 0
           THEN calls' = <<DeleteCall(op'.name, op'.args[1])>>
           ELSE calls' = <<>>]_vars

\* After a creation, a sampler handle other than 0 has been released twice
\* in a row and the second release has issued its delete.
C4_Witness ==
    /\ repeated
    /\ nCalls = 3
    /\ op.name = "ReleaseSampler"
    /\ op.args[1] # 0
    /\ Len(calls) = 1

\* C5 as stated, for every Release operation, UpdateVertexArrayBuffer and
\* UpdateUniformBuffer: with handle 0 the operation issues no API call and
\* changes no registry record and no cached state.  (UpdateRenderTarget is
\* left out: it writes the record of handle 0 whatever handle it is given,
\* which is how the window surface is resized.)
C5_ZeroHandleIsNoOp ==
    [][(/\ op'.name \in ReleaseNames \cup {"UpdateVertexArrayBuffer", "UpdateUniformBuffer"}
        /\ op'.args[1] = 0) =>
          (calls' = <<>> /\ RecordsAndCacheUnchanged)]_vars

\* The text has no version directive, or no newline after its first one.
LacksVersionLine(text) ==
    LET directives == {i \in 1..(Len(text) - 1) : text[i] = "#" /\ text[i + 1] = "v"}
    IN \/ directives = {}
       \/ LET first == CHOOSE i \in directives : \A k \in directives : i <= k
          IN \A j \in first..Len(text) : text[j] # "\n"

\* C10: CreateShaderProgram on a text without a version directive, or
\* without a newline after its first version directive, returns the sentinel
\* handle, creates and compiles no shader stage, does not link, validate or
\* reflect, and leaves the shader-program registry as it was: the only call
\* it issues is the creation of the program object.
C10_NoVersionNoCompile ==
    [][(op'.name = "CreateShaderProgram" /\ LacksVersionLine(op'.args[1])) =>
          /\ ret' = <<Sentinel>>
          /\ shaderProgramMap' = shaderProgramMap
          /\ \A k \in 1..Len(calls') : calls'[k][1] = "glCreateProgram"]_vars

\* With a program registered and a program object at hand, a text whose
\* directive has no newline after it has just been rejected.
C10_Witness ==
    /\ op.name = "CreateShaderProgram"
    /\ op.args[1] = <<"#", "v">>
    /\ ret = <<Sentinel>>
    /\ DOMAIN shaderProgramMap # {}
    /\ Len(calls) = 1
    /\ calls[1][2] # 0

\* The first step of CreateShaderProgram that fails under the answers a of
\* the API: the creation of the program object, the test of the text, the
\* vertex stage, the fragment stage, the link, the validation, or none.
FirstFailure(text, a) ==
    IF a.shaderProgram = 0 THEN "create"
    ELSE IF LacksVersionLine(text) THEN "text"
    ELSE IF a.vertexShader = 0 \/ ~a.vertexCompiled THEN "vertex"
    ELSE IF a.fragmentShader = 0 \/ ~a.fragmentCompiled THEN "fragment"
    ELSE IF ~a.linked THEN "link"
    ELSE IF ~a.valid THEN "validate"
    ELSE "none"

Count(log, name) == Len(CallsNamed(log, name))

\* A call of the reflection that follows a successful validation.
ReflectionCall(c) ==
    \/ c[1] \in {"glGetIntegerv", "glGetActiveAttrib", "glBindAttribLocation",
                 "glGetActiveUniformBlockiv", "glGetActiveUniformBlockName",
                 "glGetUniformBlockIndex", "glGetActiveUniform", "glGetUniformLocation"}
    \/ /\ c[1] = "glGetProgramiv"
       /\ c[3] \in {"GL_ACTIVE_ATTRIBUTES", "GL_ACTIVE_ATTRIBUTE_MAX_LENGTH",
                    "GL_ACTIVE_UNIFORM_BLOCKS", "GL_ACTIVE_UNIFORMS"}

NoReflection(log) == \A k \in 1..Len(log) : ~ReflectionCall(log[k])

\* The steps that follow the failed step f do not appear in the log.
StopsAfter(f, log) ==
    /\ f = "vertex" => Count(log, "glCreateShader") = 1 /\ Count(log, "glAttachShader") = 0
    /\ f = "fragment" => Count(log, "glCreateShader") = 2 /\ Count(log, "glAttachShader") = 1
    /\ f \in {"vertex", "fragment"} => Count(log, "glLinkProgram") = 0
    /\ f = "link" => Count(log, "glLinkProgram") = 1
    /\ f \in {"vertex", "fragment", "link"} => Count(log, "glValidateProgram") = 0
    /\ f = "validate" => Count(log, "glValidateProgram") = 1
    /\ NoReflection(log)

\* C11: when the vertex stage, the fragment stage, the link or the
\* validation fails, CreateShaderProgram returns the sentinel handle, issues
\* none of the steps after the failed one and leaves the shader-program
\* registry as it was; it returns another handle than the sentinel only when
\* every step succeeded, and that handle is then a key of the registry.
C11_FailedIsAbsorbing ==
    [][op'.name = "CreateShaderProgram" =>
        LET f == FirstFailure(op'.args[1], op'.args[2])
        IN /\ f \in {"vertex", "fragment", "link", "validate"} =>
                 /\ ret' = <<Sentinel>>
                 /\ shaderProgramMap' = shaderProgramMap
                 /\ StopsAfter(f, calls')
           /\ ret' # <<Sentinel>> =>
                 /\ f = "none"
                 /\ ret'[1] \in DOMAIN shaderProgramMap'
                 /\ ret'[1] = op'.args[2].shaderProgram]_vars

\* With a program in the registry, the creation of a second one has just
\* failed at the link.
C11_Witness ==
    /\ op.name = "CreateShaderProgram"
    /\ FirstFailure(op.args[1], op.args[2]) = "link"
    /\ DOMAIN shaderProgramMap # {}
    /\ ret = <<Sentinel>>
    /\ Issued(calls, "glLinkProgram")

\* C12: Draw with an instance count of zero issues no API call and leaves
\* the cache, the context and the three registries as they were, whatever
\* its other arguments are, handles of no object included.
C12_ZeroInstancesIsNoOp ==
    [][(op'.name = "Draw" /\ op'.args[5] = 0) =>
        /\ calls' = <<>>
        /\ cache' = cache
        /\ gl' = gl
        /\ fboMap' = fboMap
        /\ vaoMap' = vaoMap
        /\ shaderProgramMap' = shaderProgramMap]_vars

\* A Draw of zero instances on a target, a shader and a vertex array that
\* are neither registered nor currently bound has just returned.
C12_Witness ==
    /\ op.name = "Draw"
    /\ op.args[5] = 0
    /\ op.args[1] \notin DOMAIN fboMap
    /\ op.args[1] # cache.boundFBO
    /\ op.args[2] # cache.boundShader
    /\ op.args[3] # cache.boundVAO
    /\ calls = <<>>

\* The place of an API call in the order of Draw: 1 bind target, 2 viewport,
\* 3 blending, 4 scissor, 5 face culling, 6 depth, 7 bind shader, 8 bind
\* vertex array, 9 draw call; 0 for a call Draw has no place for.
Stage(c) ==
    IF c[1] = "glBindFramebuffer" THEN 1
    ELSE IF c[1] = "glViewport" THEN 2
    ELSE IF c[1] = "glBlendFunc" THEN 3
    ELSE IF c[1] = "glScissor" THEN 4
    ELSE IF c[1] = "glCullFace" THEN 5
    ELSE IF c[1] \in {"glDepthMask", "glDepthFunc"} THEN 6
    ELSE IF c[1] = "glUseProgram" THEN 7
    ELSE IF c[1] = "glBindVertexArray" THEN 8
    ELSE IF c[1] \in {"glDrawElements", "glDrawElementsInstanced"} THEN 9
    ELSE IF c[1] \in {"glEnable", "glDisable"}
         THEN IF c[2] = "GL_BLEND" THEN 3
              ELSE IF c[2] = "GL_SCISSOR_TEST" THEN 4
              ELSE IF c[2] = "GL_CULL_FACE" THEN 5
              ELSE 0
    ELSE 0

InDrawOrder(log) ==
    /\ \A k \in 1..Len(log) : Stage(log[k]) >= 1
    /\ \A k \in 1..(Len(log) - 1) : Stage(log[k]) <= Stage(log[k + 1])
    /\ Stage(log[Len(log)]) = 9

StagesOf(log) == {Stage(log[k]) : k \in 1..Len(log)}

\* C13: the API calls of a Draw with a positive instance count come in the
\* order bind target, viewport, blending, scissor, face culling, depth, bind
\* shader, bind vertex array, and the draw call is the last one; the viewport
\* they set is the size recorded for the target this Draw asked to bind.
C13_DrawOrder ==
    [][(op'.name = "Draw" /\ op'.args[5] > 0) =>
        /\ InDrawOrder(calls')
        /\ cache'.boundFBO = op'.args[1]
        /\ cache'.viewportFBO = op'.args[1]
        /\ op'.args[1] \in DOMAIN fboMap'
        /\ Issued(calls', "glViewport") =>
              LastCall(calls', "glViewport")
                  = <<"glViewport", 0, 0, fboMap'[op'.args[1]].width,
                      fboMap'[op'.args[1]].height>>]_vars

\* A Draw has just issued calls of all nine stages.
C13_Witness ==
    /\ op.name = "Draw"
    /\ op.args[5] > 0
    /\ StagesOf(calls) = 1..9

\* C14: a Draw with a positive instance count issues exactly one draw call:
\* the plain one for one instance, the instanced one with the instance count
\* for two or more; either carries the element count Draw was given.
C14_OneDrawCall ==
    [][(op'.name = "Draw" /\ op'.args[5] > 0) =>
        /\ Count(calls', "glDrawElements") + Count(calls', "glDrawElementsInstanced") = 1
        /\ op'.args[5] = 1 =>
              IssuedCall(calls', <<"glDrawElements", op'.args[4].primitiveType, op'.args[6]>>)
        /\ op'.args[5] >= 2 =>
              IssuedCall(calls', <<"glDrawElementsInstanced", op'.args[4].primitiveType,
                                   op'.args[6], op'.args[5]>>)]_vars

\* A Draw of two instances has just issued the instanced draw call after a
\* Draw of one instance.
C14_Witness ==
    /\ op.name = "Draw"
    /\ op.args[5] = 2
    /\ nCalls = 2
    /\ Issued(calls, "glDrawElementsInstanced")

ClearBits(args) ==
    (IF args[2] THEN {"GL_COLOR_BUFFER_BIT"} ELSE {})
    \cup (IF args[3] THEN {"GL_DEPTH_BUFFER_BIT"} ELSE {})
    \cup (IF args[4] THEN {"GL_STENCIL_BUFFER_BIT"} ELSE {})

\* C15: every Clear leaves its target as the cached bound framebuffer and
\* issues exactly one clear call, whose bitmask holds a bit exactly when the
\* flag of that bit is true; with the three flags false the bitmask is empty
\* and neither a clear colour nor a stencil write mask is issued.
C15_ClearBitmask ==
    [][op'.name = "Clear" =>
        /\ cache'.boundFBO = op'.args[1]
        /\ Count(calls', "glClear") = 1
        /\ calls'[Len(calls')] = <<"glClear", ClearBits(op'.args)>>
        /\ ClearBits(op'.args) = {} =>
              /\ ~Issued(calls', "glClearColor")
              /\ ~Issued(calls', "glStencilMask")]_vars

\* A Clear with the three flags false has just bound a target that was not
\* bound and issued the clear call.
C15_Witness ==
    /\ op.name = "Clear"
    /\ ClearBits(op.args) = {}
    /\ calls = <<<<"glBindFramebuffer", op.args[1]>>, <<"glClear", {}>>>>

\* The version the API reports, as GetVersion computes it.
Detected == gl.version[1] * 100 + gl.version[2] * 10

\* The decimal digits of a natural number.
Digit(d) == <<"0", "1", "2", "3", "4", "5", "6", "7", "8", "9">>[d + 1]

RECURSIVE Decimal(_)
Decimal(n) == IF n < 10 THEN Digit(n) ELSE Decimal(n \div 10) \o Digit(n % 10)

ShaderVersionTable(v) ==
    IF v >= 330 THEN Decimal(v)
    ELSE IF 320 <= v /\ v < 330 THEN "150"
    ELSE IF 310 <= v /\ v < 320 THEN "140"
    ELSE IF 300 <= v /\ v < 310 THEN "130"
    ELSE IF 210 <= v /\ v < 300 THEN "120"
    ELSE IF 200 <= v /\ v < 210 THEN "110"
    ELSE ""

\* C16: for the detected version v = major*100 + minor*10, GetShaderVersion
\* returns the decimal string of v when v >= 330, "150" for 320 <= v < 330,
\* "140" for 310 <= v < 320, "130" for 300 <= v < 310, "120" for
\* 210 <= v < 300, "110" for 200 <= v < 210 and the empty string below 200.
C16_ShaderVersionTable ==
    op.name = "GetShaderVersion" => ret = <<ShaderVersionTable(Detected)>>

\* GetShaderVersion has just returned "150" on a context that reports 3.2.
C16_Witness ==
    /\ op.name = "GetShaderVersion"
    /\ Detected = 320
    /\ ret = <<"150">>

\* C20: the API version query is made at most once between the construction
\* of the device and any later state, whatever operations asked for the
\* version and whatever version the context reports, and every GetVersion
\* returns major*100 + minor*10 of the reported version.
C20_QueriedOnce ==
    /\ queried <= 1
    /\ op.name = "GetVersion" => ret = <<Detected>>

\* On a context below 2.0, where GetShaderVersion keeps no string, a third
\* operation has asked for the version and no query was issued for it.
C20_Witness ==
    /\ op.name \in {"GetVersion", "GetShaderVersion"}
    /\ Detected < 200
    /\ nCalls >= 3
    /\ queried = 1
    /\ calls = <<>>

\* C17: every key of the render-target, vertex-array and shader-program
\* registries other than 0 is the name of an existing framebuffer, vertex
\* array or program object of the context.
C17_KeysAreLiveObjects ==
    /\ \A fbo \in DOMAIN fboMap : fbo # 0 => fbo \in gl.framebuffers
    /\ \A vao \in DOMAIN vaoMap : vao # 0 => vao \in gl.vertexArrays
    /\ \A shader \in DOMAIN shaderProgramMap : shader # 0 => shader \in gl.programs

\* The names a delete call of the API was given.
Deleted(c) ==
    IF c[1] \in {"glDeleteFramebuffers", "glDeleteVertexArrays", "glDeleteProgram", "glDeleteShader"}
    THEN {c[2]}
    ELSE IF c[1] \in {"glDeleteSamplers", "glDeleteTextures"} THEN {c[3]}
    ELSE IF c[1] = "glDeleteBuffers" THEN {c[3][k] : k \in 1..Len(c[3])}
    ELSE {}

\* C18: no delete call of the API is given the name 0, and 0 is a key
\* neither of the vertex-array registry nor of the shader-program registry,
\* whatever operations were called, the setters with shader handle 0
\* included.
C18_ZeroNeitherDeletedNorKey ==
    /\ \A k \in 1..Len(calls) : 0 \notin Deleted(calls[k])
    /\ 0 \notin DOMAIN vaoMap
    /\ 0 \notin DOMAIN shaderProgramMap

\* The active sampler-2D uniforms among the active uniforms of a program.
Samplers2D(uniforms) ==
    {u \in {uniforms[k] : k \in 1..Len(uniforms)} : u.type = "GL_SAMPLER_2D"}

\* C19: the sampler table registered by a successful CreateShaderProgram
\* maps the name of every active sampler-2D uniform of the program to its
\* location and has no other entry; SetShaderSampler on a registered program
\* and such a name sets the uniform at that location to the texture unit.
C19_SamplersReflected ==
    [][/\ (op'.name = "CreateShaderProgram" /\ ret' # <<Sentinel>>) =>
             LET m == shaderProgramMap'[ret'[1]].samplerMap
                 S == Samplers2D(op'.args[2].uniforms)
             IN /\ DOMAIN m = {u.name : u \in S}
                /\ \A u \in S : m[u.name] = u.location
       /\ (op'.name = "SetShaderSampler" /\ op'.args[1] \in gl.programs) =>
             \A r \in Reflection : \A u \in Samplers2D(r.uniforms) :
                 u.name = op'.args[2] =>
                     IssuedCall(calls', <<"glUniform1i", u.location, op'.args[5]>>)]_vars

Succeeded == \E k \in 1..Len(initResults) : initResults[k]

CallNames(log) == [k \in 1..Len(log) |-> log[k][1]]

\* C22: UpdateUniformBuffer binds, maps, copies and unmaps in that order;
\* when the map step returns no pointer nothing is copied; no copy goes
\* through a null pointer, and nothing is left mapped when the call returns.
C22_MapCopyUnmap ==
    [][op'.name = "UpdateUniformBuffer" =>
        /\ gl'.mapped = "NULL"
        /\ \A k \in 1..Len(calls') : calls'[k][1] = "memcpy" => calls'[k][2] # "NULL"
        /\ CallNames(calls') \in {<<"glBindBuffer", "glMapBuffer", "memcpy", "glUnmapBuffer">>,
                                  <<"glBindBuffer", "glMapBuffer", "glUnmapBuffer">>,
                                  <<"glBindBuffer", "glMapBuffer">>}]_vars

\* C23: UpdateRenderTarget(h, width, height) sets the record of handle 0 to
\* the given width and height, whatever h is, leaves the record of every
\* other handle and the key set of the render-target registry as they were
\* and issues no API call.
C23_UpdateWritesRecordZero ==
    [][op'.name = "UpdateRenderTarget" =>
        /\ fboMap'[0] = [width |-> op'.args[2], height |-> op'.args[3]]
        /\ DOMAIN fboMap' = DOMAIN fboMap
        /\ \A fbo \in DOMAIN fboMap : fbo # 0 => fboMap'[fbo] = fboMap[fbo]
        /\ calls' = <<>>]_vars

\* UpdateRenderTarget on a registered handle other than 0 has just changed
\* the record of handle 0 and not the record of its handle.
C23_Witness ==
    /\ op.name = "UpdateRenderTarget"
    /\ op.args[1] # 0
    /\ op.args[1] \in DOMAIN fboMap
    /\ fboMap[0] = [width |-> op.args[2], height |-> op.args[3]]
    /\ fboMap[op.args[1]] # fboMap[0]
    /\ fboMap[0].width # MaxDim

\* C24: the render-target registry has a record for handle 0 from the
\* construction on; ReleaseRenderTarget(0) issues no call and changes no
\* record, and the record of handle 0 changes in no operation but
\* UpdateRenderTarget.
C24_WindowRecordStays ==
    /\ 0 \in DOMAIN fboMap
    /\ [][/\ 0 \in DOMAIN fboMap'
          /\ (op'.name = "ReleaseRenderTarget" /\ op'.args[1] = 0) =>
                (calls' = <<>> /\ fboMap' = fboMap)
          /\ fboMap'[0] # fboMap[0] => op'.name = "UpdateRenderTarget"]_vars

\* ReleaseRenderTarget(0) has just returned on a device whose window record
\* was resized and that has a second render target.
C24_Witness ==
    /\ op.name = "ReleaseRenderTarget"
    /\ op.args[1] = 0
    /\ calls = <<>>
    /\ fboMap[0].width # MaxDim
    /\ DOMAIN fboMap # {0}

\* The step of CreateShaderProgram an API call belongs to: 1 vertex stage,
\* 2 fragment stage, 3 link, 4 validate, 5 version query and attribute
\* binding, 6 reflection; 0 for glCreateProgram, which precedes them.  a is
\* what the API answered, log the whole log of the run.
PipelineStage(c, a, log) ==
    IF c[1] = "glCreateProgram" THEN 0
    ELSE IF c[1] = "glCreateShader" THEN (IF c[2] = "GL_VERTEX_SHADER" THEN 1 ELSE 2)
    ELSE IF c[1] \in {"glShaderSource", "glCompileShader", "glGetShaderiv", "glGetShaderInfoLog"}
         THEN (IF c[2] = a.vertexShader THEN 1 ELSE 2)
    ELSE IF c[1] = "glAttachShader" THEN (IF c[3] = a.vertexShader THEN 1 ELSE 2)
    ELSE IF c[1] = "glLinkProgram" THEN 3
    ELSE IF c[1] = "glValidateProgram" THEN 4
    ELSE IF c[1] = "glGetProgramInfoLog" THEN (IF Issued(log, "glValidateProgram") THEN 4 ELSE 3)
    ELSE IF c[1] = "glGetProgramiv"
         THEN (IF c[3] = "GL_LINK_STATUS" THEN 3
               ELSE IF c[3] = "GL_VALIDATE_STATUS" THEN 4
               ELSE IF c[3] \in {"GL_ACTIVE_ATTRIBUTES", "GL_ACTIVE_ATTRIBUTE_MAX_LENGTH"} THEN 5
               ELSE 6)
    ELSE IF c[1] \in {"glGetIntegerv", "glGetActiveAttrib", "glBindAttribLocation"} THEN 5
    ELSE 6

PipelineStages(a, log) == {PipelineStage(log[k], a, log) : k \in 1..Len(log)}

\* The last step a run reaches when f is its first failure.
LastStep(f) ==
    CASE f \in {"create", "text"} -> 0
      [] f = "vertex" -> 1
      [] f = "fragment" -> 2
      [] f = "link" -> 3
      [] f = "validate" -> 4
      [] f = "none" -> 6

BindsAttributes(log) == Issued(log, "glGetActiveAttrib") /\ Issued(log, "glBindAttribLocation")

C27_ScissorCalls ==
    /\ [](cache.scissorTestEnabled <=> "GL_SCISSOR_TEST" \in gl.enabled)
    /\ [][op'.name = "SetScissorTest" =>
            LET enabled == "GL_SCISSOR_TEST" \in gl.enabled
                rectangle == <<"glScissor", op'.args[2], op'.args[3], op'.args[4], op'.args[5]>>
            IN calls' = IF ~op'.args[1]
                        THEN (IF enabled THEN <<<<"glDisable", "GL_SCISSOR_TEST">>>> ELSE <<>>)
                        ELSE (IF enabled THEN <<rectangle>>
                              ELSE <<<<"glEnable", "GL_SCISSOR_TEST">>, rectangle>>)]_vars

\* SetScissorTest(true) has just issued the rectangle alone, the test being
\* enabled already.
C27_Witness ==
    /\ op.name = "SetScissorTest"
    /\ op.args[1]
    /\ Len(calls) = 1
    /\ calls[1][1] = "glScissor"
    /\ cache.scissorTestEnabled
    /\ nCalls >= 2

\* C28: Draw, Clear, SetViewport, SetShaderUniformBuffer, SetShaderSampler
\* and the scalar, vector and matrix uniform setters leave the key sets and
\* the records of the three registries as they were, whatever handle they
\* are given.
C28_SettersLeaveRegistries ==
    [][op'.name \in {"Draw", "Clear", "SetViewport", "SetShaderUniformBuffer",
                     "SetShaderSampler", "SetShaderValue"} =>
        /\ fboMap' = fboMap
        /\ vaoMap' = vaoMap
        /\ shaderProgramMap' = shaderProgramMap]_vars

\* C29: when UpdateVertexArrayBuffer reallocates buffer i of a registered
\* array, the usage of the reallocation is dynamic exactly when i is in the
\* instance section (from instanceComponentsStartIndex up to, not including,
\* the index buffer, which is the last buffer); for a per-vertex buffer and
\* for the index buffer it is the usage the array was created with.
C29_ReallocationUsage ==
    [][(UpdateOfRegistered /\ Issued(calls', "glBufferData")) =>
        LET vaoData == vaoMap[op'.args[1]]
            i == op'.args[2]
            inInstanceSection == /\ vaoData.instanceComponentsStartIndex <= i
                                 /\ i < Len(vaoData.buffers) - 1
        IN LastCall(calls', "glBufferData")[5]
             = IF inInstanceSection THEN "USAGE_DYNAMIC_DRAW" ELSE vaoData.usage]_vars

\* C30: a CreateShaderProgram call that returns the sentinel handle leaves
\* alive no program object and no shader object that it created: the live
\* programs and shaders of the API after the call are among those alive
\* before it.
C30_FailedCreateLeavesNoObjects ==
    [][(op'.name = "CreateShaderProgram" /\ ret' = <<Sentinel>>) =>
        /\ gl'.programs \subseteq gl.programs
        /\ gl'.shaders \subseteq gl.shaders]_vars

\* C31: after every Draw with a positive instance count on a registered
\* target, the first Draw after construction included, the viewport of the
\* device is (0, 0, width, height) of the record the target had when Draw
\* was called, whatever the cached viewport width and height held before.
C31_ViewportFollowsTarget ==
    [][(op'.name = "Draw" /\ op'.args[5] > 0 /\ op'.args[1] \in DOMAIN fboMap) =>
        gl'.viewport = <<0, 0, fboMap[op'.args[1]].width, fboMap[op'.args[1]].height>>]_vars

\* C32: UpdateVertexArrayBuffer on a registered array other than handle 0
\* touches the array's buffer-handle and byte-capacity sequences only at
\* indices below its number of backing buffers: a call whose bufferIndex is
\* not below that number issues no API call and changes no record.
C32_OutOfRangeIsNoOp ==
    [][(/\ UpdateOfRegistered
        /\ op'.args[1] # 0
        /\ op'.args[2] >= vaoMap[op'.args[1]].numBuffers) =>
            /\ calls' = <<>>
            /\ vaoMap' = vaoMap
            /\ gl' = gl]_vars

\* C33: in every state, blending is enabled on the device exactly when
\* neither the cached source nor the cached destination blend function is
\* NONE, and when it is enabled the blend-function pair of the device is the
\* cached pair.
C33_BlendingMatchesCache ==
    /\ "GL_BLEND" \in gl.enabled <=>
          (/\ cache.currentSourceBlend # "BLEND_FUNC_NONE"
           /\ cache.currentDestBlend # "BLEND_FUNC_NONE")
    /\ "GL_BLEND" \in gl.enabled =>
          gl.blendFunc = <<cache.currentSourceBlend, cache.currentDestBlend>>

\* A Draw has just replaced a cached pair with a NONE in it by a pair
\* without: it enabled blending and set the pair on the device.
C33_Witness ==
    /\ op.name = "Draw"
    /\ IssuedCall(calls, <<"glEnable", "GL_BLEND">>)
    /\ "GL_BLEND" \in gl.enabled
    /\ gl.blendFunc = <<cache.currentSourceBlend, cache.currentDestBlend>>
    /\ gl.blendFunc = <<op.args[4].sourceBlend, op.args[4].destBlend>>

=============================================================================
